---- MODULE Spec2Model ----
(***************************************************************************)
(* A model of xmodel's per-instance runtime: attribute write and read      *)
(* (BaseModel.__setattr__ / __getattr__), the pending related ids          *)
(* (PrivateApiState), and the document import / export of BaseApi          *)
(* (update_from_json / json with its changes-only diff).                   *)
(*                                                                         *)
(* Python values are tagged records, so that values of different Python    *)
(* types are never equal: None, Null, int, str, datetime, dict, a model    *)
(* object (a reference into the heap).  A model instance is a heap entry   *)
(* [cls, attrs, last, rel]: its class, its __dict__ restricted to fields,  *)
(* its last_original_update_json and its related_field_id_area.            *)
(***************************************************************************)
EXTENDS Integers, Sequences, FiniteSets, TLC

VARIABLES
    heap,     \* the model instances: heap[r] is the instance with reference r
    op,       \* the operation that produced this state: [name, r, field, arg]
    ret,      \* what that operation returned
    raised,   \* the error it raised, "none" when it returned normally
    fetches,  \* number of get_via_id calls that operation made
    hist,     \* a recorder [on, docs]: when on, docs are the documents given to
              \* update_from_json on instance 1 since construction or the
              \* last forget_original_json_state
    client,   \* the client's weak cache pool and its last list query:
              \* [enabled, weak, hits, asked]
    classes,  \* the declarations of the classes under study and what was built
              \* from them: [conv], the api classes' default_converters, and
              \* [flds], the options of one field along a class hierarchy
    response, \* the ResponseState of one object's api: [had_error,
              \* field_errors, try_count, should_retry_send]
    ctx,      \* the active dependencies of the current context, outermost
              \* first: [options], the ApiOptionsGroup stack
    lazy,     \* the lazily built parts of one model class and the threads that
              \* access them: [api, structs, builds, pc, mine, inner, made, seen]
    query     \* the call of get_via_id with a list that is under way: [pc, max,
              \* groups, count, size, last, issued, odd]

vars ==
    <<heap, op, ret, raised, fetches, hist, client, classes, response, ctx, lazy, query>>

---------------------------------------------------------------------------
\* Python values

None == [t |-> "None"]
Null == [t |-> "Null"]
Default == [t |-> "Default"]
PyFalse == [t |-> "False"]
IntV(n) == [t |-> "int", n |-> n]
StrV(s) == [t |-> "str", s |-> s]
DictV(d) == [t |-> "dict", d |-> d]
ObjV(r) == [t |-> "obj", r |-> r]
\* A datetime: an instant and whether it carries a timezone ("naive", "utc", "other").
DtV(i, tz) == [t |-> "datetime", i |-> i, tz |-> tz]
BoolV(b) == [t |-> "bool", b |-> b]
\* A callable given as a field default: calling it makes a new cls object.
Call(cls) == [t |-> "call", cls |-> cls]
\* A model instance given as a field default: the object at r, of class cls,
\* made when the class was declared.
InstanceDefault(cls, r) == [t |-> "inst", cls |-> cls, r |-> r]
\* An exception travelling up instead of a value.
Raise(e) == [t |-> "raise", e |-> e]

IsRaise(v) == v.t = "raise"
EmptyDoc == [k \in {} |-> None]
\* A merge that keeps nothing of a
MergeNewOnly(a, b) == b
\* {**a, **b}
Merge(a, b) == [k \in (DOMAIN a) \cup (DOMAIN b) |-> IF k \in DOMAIN b THEN b[k] ELSE a[k]]
\* d[k] = v on a copy
Put(d, k, v) == [x \in (DOMAIN d) \cup {k} |-> IF x = k THEN v ELSE d[x]]
\* del d[k] for every k in ks
Drop(d, ks) == [x \in (DOMAIN d) \ ks |-> d[x]]
\* d.get(k, dflt)
Get(d, k, dflt) == IF k \in DOMAIN d THEN d[k] ELSE dflt

\* int(s) for the strings of the model; the others raise ValueError.
NumStrs == {"1", "2"}
IntOfStr(s) == IF s = "1" THEN 1 ELSE 2
\* str(n)
StrOfInt(n) == IF n = 0 THEN "0" ELSE IF n = 1 THEN "1" ELSE IF n = 2 THEN "2" ELSE "3"
\* The ISO-8601 UTC text convert_json_datetime emits for instant i, and its parse.
IsoOfInstant(i) == IF i = 1 THEN "T1" ELSE "T2"
IsoStrs == {"T1", "T2"}
InstantOfIso(s) == IF s = "T1" THEN 1 ELSE 2

\* Python ==.  Two datetimes are equal when both are aware and denote the same
\* instant, or both are naive with the same wall time; models compare by identity.
PyEq(a, b) ==
    IF a.t = "datetime" /\ b.t = "datetime"
    THEN a.i = b.i /\ ((a.tz = "naive") <=> (b.tz = "naive"))
    ELSE a = b

---------------------------------------------------------------------------
\* Fields and model classes (the resolved field maps of the classes used)

\* DEFAULT_CONVERTERS: the converter a field of this type gets.
DefaultConverter(hint) ==
    IF hint \in {"str", "int", "datetime"} THEN hint ELSE "none"

Fld(name, hint) ==
    [name |-> name, type_hint |-> hint, nullable |-> FALSE, read_only |-> FALSE,
     default |-> None, json_path |-> <<name>>, include_with_fields |-> {},
     related_type |-> "none", converter |-> DefaultConverter(hint),
     fget |-> "none", fset |-> "none"]

Rel(name, cls) == [Fld(name, cls) EXCEPT !.related_type = cls]

\* Classes whose structure is a RemoteStructure.
RemoteClasses == {"RChild", "REParent", "RModel", "RoModel"}

Fields(cls) ==
    CASE cls = "AModel" ->
           << [Fld("a_field", "str") EXCEPT !.include_with_fields = {"b_field"}],
              Fld("b_field", "int") >>
      [] cls = "IParent" ->
           << Rel("child", "RChild") >>
      [] cls = "JModel" ->
           << Fld("field_str", "str"), Fld("field_int", "int") >>
      [] cls = "JParent" ->
           << Fld("p_field_int", "int"), Rel("embedded", "JModel") >>
      [] cls = "DModel" ->
           << [Fld("field_list", "list") EXCEPT !.default = Call("list")] >>
      [] cls = "EModel" ->
           << [Fld("field_list", "list") EXCEPT !.default = Call("list")],
              Fld("field_str", "str") >>
      [] cls = "OModel" ->
           << [Rel("inner", "EModel") EXCEPT !.default = InstanceDefault("EModel", 1)] >>
      [] cls = "GModel" ->
           << [Fld("a_field", "str") EXCEPT !.fget = "_a_field_storage",
                                            !.fset = "_a_field_storage"],
              [Fld("g_field", "int") EXCEPT !.fget = "_g_field_storage"],
              [Rel("child", "RChild") EXCEPT !.fget = "_child_storage"] >>
      [] cls = "PathModel" ->
           << [Fld("nested", "str") EXCEPT !.json_path = <<"outer", "value">>],
              [Fld("count", "int") EXCEPT !.json_path = <<"outer", "count">>] >>
      [] cls = "PParent" ->
           << [Rel("child", "RChild") EXCEPT !.json_path = <<"kid">>],
              Fld("p_field", "str") >>
      [] cls = "RChild" ->
           << Fld("id", "int") >>
      [] cls = "REParent" ->
           << Fld("id", "int"), Rel("embedded", "JModel"), Fld("parent_field", "str") >>
      [] cls = "RModel" ->
           << Fld("id", "int"),
              [Fld("a_field", "str") EXCEPT !.include_with_fields = {"b_field"}],
              Fld("b_field", "int"),
              [Fld("ro_field", "str") EXCEPT !.read_only = TRUE] >>
      [] cls = "RoModel" ->
           << [Fld("id", "int") EXCEPT !.read_only = TRUE], Fld("a_field", "str") >>
      [] cls = "RParent" ->
           << Rel("child", "RChild") >>
      [] cls = "UModel" ->
           << Fld("u_field", "bytes") >>
      [] cls = "TestModel" ->
           << [Fld("json_path_field", "str") EXCEPT !.json_path = <<"outer", "value">>],
              [Fld("count", "int") EXCEPT !.json_path = <<"outer", "count">>,
                                          !.nullable = TRUE],
              [Fld("ro_field", "str") EXCEPT !.read_only = TRUE],
              [Fld("field_str", "str") EXCEPT !.default = IntV(2)],
              Fld("a_datetime_field", "datetime") >>
      [] OTHER -> << >>

\* supported_basic_types, of the type hints used here
SupportedBasicTypes == {"str", "int", "list"}

RECURSIVE CheckFields(_, _)
\* The checks _generate_fields makes on each resolved field: "none", or the
\* error it raises.  For a relationship field whose json_path differs from
\* its name the XModelError is constructed and dropped, not raised.
CheckFields(cls, i) ==
    IF i > Len(Fields(cls)) THEN "none"
    ELSE IF /\ Fields(cls)[i].converter = "none"
            /\ Fields(cls)[i].type_hint \notin SupportedBasicTypes
            /\ Fields(cls)[i].related_type = "none"
    THEN "XModelError"
    ELSE IF /\ Fields(cls)[i].json_path # <<Fields(cls)[i].name>>
            /\ Fields(cls)[i].related_type # "none"
    THEN CheckFields(cls, i + 1)
    ELSE CheckFields(cls, i + 1)

FieldSeq(cls) == Fields(cls)
FieldNames(cls) == {Fields(cls)[i].name : i \in 1..Len(Fields(cls))}
FieldExists(cls, name) == name \in FieldNames(cls)
GetField(cls, name) ==
    Fields(cls)[CHOOSE i \in 1..Len(Fields(cls)) : Fields(cls)[i].name = name]
HasIdField(cls) == cls \in RemoteClasses

IsFieldAChild(cls, name, and_has_id) ==
    /\ FieldExists(cls, name)
    /\ GetField(cls, name).related_type # "none"
    /\ (and_has_id => HasIdField(GetField(cls, name).related_type))

\* name.endswith("_id"), and name[:-3]
IdNames == {"child_id", "embedded_id"}
EndsWithId(name) == name \in IdNames
BaseOfId(name) == IF name = "child_id" THEN "child" ELSE "embedded"
IdNameOf(f) == IF f = "child" THEN "child_id" ELSE "embedded_id"

\* A fresh instance: BaseModel.__init__ with no arguments.
NewObj(cls) == [cls |-> cls, attrs |-> EmptyDoc, last |-> None, rel |-> EmptyDoc]

Res(h, v, e, n) == [h |-> h, ret |-> v, raised |-> e, fetched |-> n]

---------------------------------------------------------------------------
\* Converters (xmodel/converters.py).  Directions: "to_json", "from_json", "to_model".

\* ConvertBasicType(str).convert_basic_value
ConvertStrValue(value) ==
    IF value = Null THEN Null
    ELSE IF value.t = "str" THEN value
    ELSE IF value.t = "int" THEN StrV(StrOfInt(value.n))
    ELSE StrV("repr")

\* ConvertBasicInt.convert_basic_value
ConvertIntValue(value) ==
    IF value.t = "str" /\ value.s = "" THEN IntV(0)
    ELSE IF value = Null THEN Null
    ELSE IF value.t = "int" THEN value
    ELSE IF value.t = "str"
         THEN IF value.s \in NumStrs THEN IntV(IntOfStr(value.s)) ELSE Raise("ValueError")
    ELSE Raise("TypeError")

\* ConvertBasicType.__call__
ConvertBasic(basic_type, direction, field, value) ==
    IF value \in {None, Null} /\ direction = "from_json" /\ field.nullable THEN Null
    ELSE IF value = None THEN None
    ELSE IF basic_type = "int" THEN ConvertIntValue(value)
    ELSE ConvertStrValue(value)

\* to_datetime
ToDatetime(value) ==
    IF value.t = "str"
    THEN IF value.s \in IsoStrs THEN DtV(InstantOfIso(value.s), "utc") ELSE Raise("ValueError")
    ELSE IF value.t = "datetime" THEN value
    ELSE Raise("ValueError")

\* convert_json_datetime
ConvertJsonDatetime(direction, field, value) ==
    IF value \in {None, Null} /\ direction = "from_json" /\ field.nullable THEN Null
    ELSE IF value = None \/ value = Null THEN value
    ELSE IF direction \in {"from_json", "to_model"}
         THEN IF value.t \in {"str", "datetime"} THEN ToDatetime(value)
              ELSE Raise("XModelError")
    ELSE IF value.t = "str" /\ value.s = "" THEN Null
    ELSE LET v == IF value.t = "str" THEN ToDatetime(value) ELSE value
         IN IF IsRaise(v) THEN v
            ELSE IF v.t # "datetime" THEN Raise("XModelError")
            \* value.astimezone(utc).isoformat(): always timezone-aware UTC text
            ELSE StrV(IsoOfInstant(v.i))

\* field.converter(api, direction, field, value)
Convert(direction, field, value) ==
    IF field.converter = "datetime" THEN ConvertJsonDatetime(direction, field, value)
    ELSE ConvertBasic(field.converter, direction, field, value)

\* type(value) is type_hint, for the values and hints of the model
TypeIs(h, value, hint) ==
    IF value.t = "obj" THEN h[value.r].cls = hint ELSE value.t = hint

\* _get_default_value_from_field
GetDefaultValueFromField(field) ==
    IF field.default = None THEN None
    ELSE IF field.default = Null
         THEN IF ~field.nullable THEN Raise("XModelError") ELSE Null
    ELSE IF field.default = Default THEN None
    \* a callable is called; what it makes here is of the hinted type
    ELSE IF field.default.t = "call" /\ field.default.cls = field.type_hint THEN field.default
    \* a model instance is copied; the copy has the type of the instance
    ELSE IF field.default.t = "inst" /\ field.default.cls = field.type_hint THEN field.default
    ELSE IF field.default.t # field.type_hint
         THEN IF field.converter = "none" THEN Raise("XModelError")
              ELSE Convert("to_model", field, field.default)
    ELSE field.default

---------------------------------------------------------------------------
\* PrivateApiState and attribute access (xmodel/_private/api/state.py,
\* xmodel/base/model.py)

SetAttrs(h, r, name, value) == [h EXCEPT ![r].attrs = Put(@, name, value)]
DelAttr(h, r, name) == [h EXCEPT ![r].attrs = Drop(@, {name})]

\* BaseApi.get_child_without_lazy_lookup
GetChildWithoutLazyLookup(h, r, name, false_if_not_set) ==
    IF name \in DOMAIN h[r].attrs THEN h[r].attrs[name]
    ELSE IF false_if_not_set THEN PyFalse
    ELSE None

\* child.id on a related object: the attribute, or the field's default (None).
IdOf(h, child) == Get(h[child.r].attrs, "id", None)

\* PrivateApiState.reset_related_field_id_if_exists
ResetRelatedFieldIdIfExists(h, r, name) == [h EXCEPT ![r].rel = Drop(@, {name})]

\* get_related_field_id that consults the pending ids only
GetRelatedFieldIdStored(h, r, name) == Get(h[r].rel, name, None)

\* PrivateApiState.get_related_field_id (return_false_if_child_set = False)
GetRelatedFieldId(h, r, name) ==
    LET child == GetChildWithoutLazyLookup(h, r, name, FALSE)
    IN IF ~IsFieldAChild(h[r].cls, name, TRUE) THEN Raise("XModelError")
       ELSE IF child = Null THEN Null
       ELSE IF child # None THEN IdOf(h, child)
       ELSE Get(h[r].rel, name, None)

\* A default that is one object shared by every instance
CallDefaultShared(h, default) ==
    IF default.t # "call" THEN [h |-> h, v |-> default]
    ELSE IF \E x \in DOMAIN h : h[x].cls = default.cls
    THEN [h |-> h, v |-> ObjV(CHOOSE x \in DOMAIN h : h[x].cls = default.cls)]
    ELSE [h |-> Append(h, NewObj(default.cls)), v |-> ObjV(Len(h) + 1)]

\* `default = default()` of _get_default_value_from_field: the call makes a
\* new object; any other default is the value itself
CallDefault(h, default) ==
    IF default.t = "call"
    THEN [h |-> Append(h, NewObj(default.cls)), v |-> ObjV(Len(h) + 1)]
    ELSE [h |-> h, v |-> default]

\* super().__setattr__(name, value) at the end of __setattr__
\* The attribute a store of field `name` ends in: the one the setter
\* override (fset) writes, else the field's own.
StoreName(field, name) == IF field.fset # "none" THEN field.fset ELSE name

\* The end of BaseModel.__setattr__: fset if there is one, an XModelError if
\* there is only an fget, else the store on the instance.
Store(h, r, name, value, field) ==
    IF field.fset = "none" /\ field.fget # "none"
    THEN Res(h, None, "XModelError", 0)
    ELSE Res(SetAttrs(h, r, StoreName(field, name), value), None, "none", 0)

StoreMade(r, name, field, made) == Store(made.h, r, name, made.v, field)

\* __getattr__: the default made is stored on the instance and returned
ReturnDefault(r, name, field, made, n) ==
    Res(SetAttrs(made.h, r, StoreName(field, name), made.v), made.v, "none", n)

\* The store at the end of __setattr__, or the error of a conversion made
\* inside its try block (a ValueError is re-raised as an AttributeError).
StoreConverted(h, r, name, field, c) ==
    IF IsRaise(c)
    THEN Res(h, None, IF c.e = "ValueError" THEN "AttributeError" ELSE c.e, 0)
    ELSE StoreMade(r, name, field, CallDefault(h, c))

\* BaseModel.__setattr__ for a name that has a field: the type check and
\* conversion chain, then the store on the instance.
SetFieldWith(h, r, name, value, field) ==
    IF field.nullable /\ field.type_hint # "str" /\ value.t = "str" /\ value.s = ""
    THEN Store(h, r, name, Null, field)
    ELSE IF value = None
    THEN StoreConverted(h, r, name, field, GetDefaultValueFromField(field))
    ELSE IF TypeIs(h, value, field.type_hint)
    THEN \* the type is the hint: reset any pending related id, store as is
         Store(ResetRelatedFieldIdIfExists(h, r, name), r, name, value, field)
    ELSE IF value = Null
    THEN \* an XModelError is constructed here and not raised: Null is stored
         Store(h, r, name, Null, field)
    ELSE IF field.converter # "none"
    THEN StoreConverted(h, r, name, field, Convert("to_model", field, value))
    ELSE Res(h, None, "AttributeError", 0)

SetField(h, r, name, value) == SetFieldWith(h, r, name, value, GetField(h[r].cls, name))

\* A store of the pending id that leaves the attribute in place
StoreRelatedIdKeepAttr(h, r, name, value, child) ==
    Res([h EXCEPT ![r].rel = Put(@, name, value)], None, "none", 0)

\* A store of the pending id that takes an id given again as its withdrawal
StoreRelatedIdFlip(h, r, name, value, child) ==
    IF Get(h[r].rel, name, None) = value
    THEN Res([h EXCEPT ![r].rel = Drop(@, {name})], None, "none", 0)
    ELSE Res([(IF child # PyFalse THEN DelAttr(h, r, name) ELSE h)
                 EXCEPT ![r].rel = Put(@, name, value)], None, "none", 0)

\* set_related_field_id, last lines: drop the attribute and store the pending id
StoreRelatedId(h, r, name, value, child) ==
    Res([(IF child # PyFalse THEN DelAttr(h, r, name) ELSE h)
            EXCEPT ![r].rel = Put(@, name, value)], None, "none", 0)

\* set_related_field_id when a child object is set and value is not Null:
\* c is convert_id(value)
SetRelatedIdOfChild(h, r, name, value, child, c) ==
    IF IsRaise(c) THEN Res(h, None, c.e, 0)
    ELSE IF PyEq(IdOf(h, child), c) THEN Res(h, None, "none", 0)
    ELSE StoreRelatedId(h, r, name, value, child)

\* A set_related_field_id that sets Null over any related object
SetRelatedIdNullOverAny(h, r, name, value, child, have_child_obj) ==
    IF have_child_obj /\ value # Null
    THEN SetRelatedIdOfChild(h, r, name, value, child,
                             Convert("to_model", GetField(h[child.r].cls, "id"), value))
    ELSE IF child = Null /\ value = Null THEN Res(h, None, "none", 0)
    ELSE IF value = Null THEN SetField(h, r, name, Null)
    ELSE StoreRelatedId(h, r, name, value, child)

SetRelatedIdWith(h, r, name, value, child, have_child_obj) ==
    IF have_child_obj /\ value # Null
    THEN SetRelatedIdOfChild(h, r, name, value, child,
                             Convert("to_model", GetField(h[child.r].cls, "id"), value))
    ELSE IF child = Null /\ value = Null THEN Res(h, None, "none", 0)
    ELSE IF have_child_obj /\ ~(HasIdField(h[child.r].cls) /\ IdOf(h, child) # None)
    THEN Res(h, None, "none", 0)
    ELSE IF value = Null THEN SetField(h, r, name, Null)
    ELSE StoreRelatedId(h, r, name, value, child)

\* PrivateApiState.set_related_field_id
SetRelatedFieldId(h, r, name, value) ==
    IF ~IsFieldAChild(h[r].cls, name, TRUE) THEN Res(h, None, "XModelError", 0)
    ELSE SetRelatedIdWith(h, r, name, value,
                          GetChildWithoutLazyLookup(h, r, name, TRUE),
                          GetChildWithoutLazyLookup(h, r, name, TRUE)
                              \notin {None, Null, PyFalse})

\* BaseModel.__setattr__
SetAttr(h, r, name, value) ==
    IF EndsWithId(name) /\ IsFieldAChild(h[r].cls, BaseOfId(name), TRUE)
    THEN SetRelatedFieldId(h, r, BaseOfId(name), value)
    ELSE IF ~FieldExists(h[r].cls, name)
    THEN Res(SetAttrs(h, r, name, value), None, "none", 0)
    ELSE SetField(h, r, name, value)

---------------------------------------------------------------------------
\* Import: BaseModel.__init__ and BaseApi.update_from_json (xmodel/base/api.py)

RECURSIVE WalkPath(_, _)
\* The walk of update_from_json along a field's json_path: [got, v], or an error.
WalkPath(v, path) ==
    IF path[1] \notin DOMAIN v THEN [got |-> FALSE, v |-> None]
    ELSE IF v[path[1]] = None \/ Len(path) = 1 THEN [got |-> TRUE, v |-> v[path[1]]]
    ELSE IF v[path[1]].t = "dict" THEN WalkPath(v[path[1]].d, Tail(path))
    \* `name not in v` on a str is a substring test (false for the strings
    \* used here) and a TypeError on an int
    ELSE IF v[path[1]].t = "str" THEN [got |-> FALSE, v |-> None]
    ELSE [got |-> FALSE, v |-> Raise("TypeError")]

\* A flat dict `values` that has Null for every field whose path is not found
PathValuesNulled(cls, json) ==
    Merge(json, [f \in FieldNames(cls) |->
                   IF WalkPath(json, GetField(cls, f).json_path).v = None THEN Null
                   ELSE WalkPath(json, GetField(cls, f).json_path).v])

\* The flat dict `values`: field name -> value found at the field's json_path,
\* merged over the outer json.
PathValues(cls, json) ==
    LET got == {f \in FieldNames(cls) : WalkPath(json, GetField(cls, f).json_path).got}
    IN Merge(json, [f \in got |->
                      IF WalkPath(json, GetField(cls, f).json_path).v = None THEN Null
                      ELSE WalkPath(json, GetField(cls, f).json_path).v])

PathError(cls, json) ==
    \E f \in FieldNames(cls) : IsRaise(WalkPath(json, GetField(cls, f).json_path).v)

\* set_attr_on_model
SetAttrOnModel(h, r, field, value) ==
    IF value = None THEN Res(h, None, "none", 0) ELSE SetAttr(h, r, field, value)

\* The value update_from_json hands to set_attr_on_model for a plain field:
\* JSON null is Null, a missing key is None, anything else goes through the
\* field's converter.
FromJsonValue(values, field_obj) ==
    IF field_obj.name \notin DOMAIN values THEN None
    ELSE IF field_obj.converter = "none"
    THEN (IF values[field_obj.name] = None THEN Null ELSE values[field_obj.name])
    ELSE Convert("from_json", field_obj,
                 IF values[field_obj.name] = None THEN Null ELSE values[field_obj.name])

RECURSIVE ImportPlain(_, _, _, _)

ImportPlainNext(r, values, i, s) ==
    IF s.raised # "none" THEN s ELSE ImportPlain(s.h, r, values, i + 1)

ImportPlainValue(h, r, values, i, f, c) ==
    IF IsRaise(c) THEN Res(h, None, c.e, 0)
    ELSE ImportPlainNext(r, values, i, SetAttrOnModel(h, r, f, c))

ImportPlainField(h, r, values, i, field_obj) ==
    IF field_obj.related_type # "none" THEN ImportPlain(h, r, values, i + 1)
    ELSE ImportPlainValue(h, r, values, i, field_obj.name, FromJsonValue(values, field_obj))

\* The loop of update_from_json over the fields that are not relationships.
ImportPlain(h, r, values, i) ==
    IF i > Len(FieldSeq(h[r].cls)) THEN Res(h, None, "none", 0)
    ELSE ImportPlainField(h, r, values, i, FieldSeq(h[r].cls)[i])

RECURSIVE UpdateFromJson(_, _, _)
RECURSIVE ImportRelated(_, _, _, _, _)

\* related_type(v): BaseModel.__init__ with one positional argument.
\* The new instance is heap entry Len(h) + 1 of the result.
NewModel(h, cls, first_arg) ==
    IF first_arg = None THEN Res(Append(h, NewObj(cls)), None, "none", 0)
    ELSE IF first_arg.t = "dict"
    THEN UpdateFromJson(Append(h, NewObj(cls)), Len(h) + 1, first_arg.d)
    ELSE IF first_arg.t = "str" THEN Res(Append(h, NewObj(cls)), None, "ValueError", 0)
    ELSE Res(Append(h, NewObj(cls)), None, "XModelError", 0)

ImportRelatedNext(r, json, values, i, s) ==
    IF s.raised # "none" THEN s ELSE ImportRelated(s.h, r, json, values, i + 1)

\* v = related_type(v), then set_attr_on_model(f, v)
ImportBuilt(r, json, values, i, f, new_r, built) ==
    IF built.raised # "none" THEN built
    ELSE ImportRelatedNext(r, json, values, i, SetAttrOnModel(built.h, r, f, ObjV(new_r)))

\* An import that takes a null `{name}_id` for a missing one
ImportRelatedIdValueNoNull(h, r, json, values, i, f, id_conv) ==
    IF IsRaise(id_conv) THEN Res(h, None, id_conv.e, 0)
    ELSE IF id_conv # None
    THEN ImportRelatedNext(r, json, values, i, SetRelatedFieldId(h, r, f, id_conv))
    ELSE ImportRelated(h, r, json, values, i + 1)

\* The `{name}_id` key of the document: id_conv is its converted value
ImportRelatedIdValue(h, r, json, values, i, f, id_conv) ==
    IF IsRaise(id_conv) THEN Res(h, None, id_conv.e, 0)
    ELSE IF id_conv # None
    THEN ImportRelatedNext(r, json, values, i, SetRelatedFieldId(h, r, f, id_conv))
    ELSE IF IdNameOf(f) \in DOMAIN json
    THEN ImportRelatedNext(r, json, values, i, SetRelatedFieldId(h, r, f, Null))
    ELSE ImportRelated(h, r, json, values, i + 1)

ImportRelatedId(h, r, json, values, i, f, id_field) ==
    ImportRelatedIdValue(h, r, json, values, i, f,
        IF id_field.converter # "none" /\ Get(json, IdNameOf(f), None) # None
        THEN Convert("from_json", id_field, json[IdNameOf(f)])
        ELSE Get(json, IdNameOf(f), None))

ImportRelatedField(h, r, json, values, i, field_obj) ==
    IF field_obj.related_type = "none" THEN ImportRelated(h, r, json, values, i + 1)
    ELSE IF field_obj.name \in DOMAIN values /\ values[field_obj.name] # Null
    THEN ImportBuilt(r, json, values, i, field_obj.name, Len(h) + 1,
                     NewModel(h, field_obj.related_type, values[field_obj.name]))
    ELSE IF field_obj.name \in DOMAIN values
    THEN ImportRelatedNext(r, json, values, i, SetAttrOnModel(h, r, field_obj.name, Null))
    ELSE IF HasIdField(field_obj.related_type)
    THEN ImportRelatedId(h, r, json, values, i, field_obj.name,
                         IF FieldExists(h[r].cls, IdNameOf(field_obj.name))
                         THEN GetField(h[r].cls, IdNameOf(field_obj.name))
                         ELSE GetField(field_obj.related_type, "id"))
    ELSE ImportRelated(h, r, json, values, i + 1)

\* The loop of update_from_json over the relationship fields.
ImportRelated(h, r, json, values, i) ==
    IF i > Len(FieldSeq(h[r].cls)) THEN Res(h, None, "none", 0)
    ELSE ImportRelatedField(h, r, json, values, i, FieldSeq(h[r].cls)[i])

ImportAfterPlain(r, json, values, plain) ==
    IF plain.raised # "none" THEN plain
    ELSE ImportRelated(plain.h, r, json, values, 1)

\* BaseApi.update_from_json: h1 has the merged last_original_update_json
ImportMerged(h1, r, json, values) ==
    IF PathError(h1[r].cls, json) THEN Res(h1, None, "TypeError", 0)
    ELSE ImportAfterPlain(r, json, values, ImportPlain(h1, r, values, 1))

BaseUpdateFromJson(h, r, json) ==
    ImportMerged([h EXCEPT ![r].last =
                     DictV(Merge(IF @ = None THEN EmptyDoc ELSE @.d, json))],
                 r, json, PathValues(h[r].cls, json))

\* RemoteApi.update_from_json after super().update_from_json: model.id = json.get('id')
\* (the id caches are disabled by default)
UpdateRemoteId(r, json, base) ==
    IF base.raised # "none" \/ ~HasIdField(base.h[r].cls) THEN base
    ELSE SetAttr(base.h, r, "id", Get(json, "id", None))

\* api.update_from_json
UpdateFromJson(h, r, json) == UpdateRemoteId(r, json, BaseUpdateFromJson(h, r, json))

---------------------------------------------------------------------------
\* The weak cache and get_via_id with a list of ids (xmodel/remote/api.py,
\* xmodel/remote/client.py, xmodel/remote/weak_cache_pool.py)

\* A list of objects, as the set of its members
ListV(items) == [t |-> "list", items |-> items]

\* The client of a model class: its WeakCachePool (disabled unless enabled
\* by the program), and of its last get_via_id with a list the ids served
\* from the cache and the ids it was queried for
ClientInit(enabled) ==
    [enabled |-> enabled, weak |-> EmptyDoc, strong |-> EmptyDoc, hits |-> {}, asked |-> {}]

\* BaseStructure.id_cache_key: f"{model_cls.__name__}-id-{_id}"
IdCacheKey(cls, id) == <<cls, "id", IF id.t = "int" THEN StrOfInt(id.n) ELSE id.s>>

\* `if id_value: client.cache_weak_set(structure.id_cache_key(id_value), model)`;
\* WeakCachePool.set does nothing when the pool is not enabled
CacheWeakSet(c, cls, id_value, r) ==
    IF c.enabled /\ id_value \notin {None, Null, IntV(0), StrV("")}
    THEN [c EXCEPT !.weak = Put(@, IdCacheKey(cls, id_value), r)]
    ELSE c

\* WeakCachePool.clear_caches()
ClearCaches(c) == [c EXCEPT !.weak = EmptyDoc]

\* WeakCachePool.enabled = value
EnabledSet(c, value) ==
    IF c.enabled = value THEN c ELSE ClearCaches([c EXCEPT !.enabled = value])

\* WeakCachePool.set(key, value): the key names the type of the value too
PoolSet(c, key, r) == IF ~c.enabled THEN c ELSE [c EXCEPT !.weak = Put(@, key, r)]

\* WeakCachePool.get(value_type, key, default)
PoolGet(c, key, default) ==
    IF ~c.enabled THEN None
    ELSE IF key \in DOMAIN c.weak THEN ObjV(c.weak[key]) ELSE default

\* WeakCachePool.remove(value_type, key)
PoolRemove(c, key) == IF ~c.enabled THEN c ELSE [c EXCEPT !.weak = Drop(@, {key})]

\* client.cache_weak_get / client.cache_get (no strong cache: cache_by_id is off)
\* RemoteClient.cache_get: the weak cache, then the strong one (obj_cache)
CacheGet(c, cls, id) ==
    IF IdCacheKey(cls, id) \in DOMAIN c.weak THEN c.weak[IdCacheKey(cls, id)]
    ELSE Get(c.strong, IdCacheKey(cls, id), 0)

\* A strong cache that is never written
CacheByIdNever(c, h, cls, id_value, r, cache_by_id) == c

\* RemoteApi.update_from_json, its last lines: with the option cache_by_id
\* the model is put in the strong cache under the id of the document;
\* model.id is by then the id of the document
CacheById(c, h, cls, id_value, r, cache_by_id) ==
    IF cache_by_id # BoolV(TRUE) THEN c
    ELSE IF id_value = None /\ Get(h[r].attrs, "id", None) \notin {None, Null, IntV(0), StrV("")}
    THEN [c EXCEPT !.strong = Drop(@, {IdCacheKey(cls, h[r].attrs["id"])})]
    ELSE IF id_value \notin {None, Null, IntV(0), StrV("")}
    THEN [c EXCEPT !.strong = Put(@, IdCacheKey(cls, id_value), r)]
    ELSE c

\* RemoteClient.clear_caches: the strong cache and every WeakCachePool
ClientClearCaches(c) == [c EXCEPT !.weak = EmptyDoc, !.strong = EmptyDoc]

\* The ids of the list that the first loop of get_via_id finds in the cache
CachedIds(c, cls, ids) == {i \in ids : CacheGet(c, cls, IntV(i)) # 0}

\* `results = []` before the query loop: what was collected so far is dropped
ResultsReset(results) == {}

RECURSIVE ClientGet(_, _, _)
\* client.get(query): the client makes one object from each record it finds,
\* model_type(record), and each is cached by its update_from_json.
\* s is [h, c, items]; todo are the ids found that are still to be made.
ClientGetMade(s, cls, todo, i, built) ==
    ClientGet([h |-> built.h,
               c |-> CacheWeakSet(s.c, cls, IntV(i), Len(s.h) + 1),
               items |-> s.items \cup {Len(s.h) + 1}],
              cls, todo \ {i})

ClientGet(s, cls, todo) ==
    IF todo = {} THEN s
    ELSE ClientGetMade(s, cls, todo, CHOOSE i \in todo : \A j \in todo : i <= j,
                       NewModel(s.h, cls,
                                DictV([k \in {"id"} |->
                                         IntV(CHOOSE i \in todo : \A j \in todo : i <= j)])))

\* get_via_id, end: the query results are returned
GetViaIdReturn(results, got, hits, asked) ==
    [h |-> got.h,
     c |-> [got.c EXCEPT !.hits = hits, !.asked = asked],
     ret |-> ListV(results \cup got.items)]

\* get_via_id, the part after the cache lookups: hits are the ids found in
\* the cache, the others are asked from the client, which finds `found`
GetViaIdQuery(h, c, cls, ids, found, hits) ==
    GetViaIdReturn(ResultsReset({CacheGet(c, cls, IntV(i)) : i \in hits}),
                   ClientGet([h |-> h, c |-> c, items |-> {}], cls,
                             (ids \ hits) \cap found),
                   hits, ids \ hits)

\* RemoteApi.get_via_id(ids) for a list of int ids, no aux_query
GetViaIdList(h, c, cls, ids, found) ==
    GetViaIdQuery(h, c, cls, ids, found, CachedIds(c, cls, ids))

---------------------------------------------------------------------------
\* The queries of get_via_id for a list (RemoteApi.get_via_id, last loop).
\* A key dict counts by its keys; a group is [keys, left]: the number of
\* keys of its key dicts and how many of them are still in obj_group.

\* No call of get_via_id is under way and none was made
NoQuery ==
    [pc |-> "idle", max |-> 1, groups |-> << >>, count |-> 0, size |-> 0, last |-> 0,
     issued |-> 0, odd |-> FALSE]

\* query_groups: the key dicts grouped by their set of keys, first the
\* single-key dicts {id_field: x}, then the composite ones; the caches hold
\* none of them
QueryGroups(singles, composites, keys) ==
    (IF singles > 0 THEN << [keys |-> 1, left |-> singles] >> ELSE << >>)
        \o (IF composites > 0 THEN << [keys |-> keys, left |-> composites] >> ELSE << >>)

\* get_via_id up to the first `while len(obj_group) > 0`
QueryStarted(max_query_by_id, groups) ==
    [pc |-> IF groups = << >> THEN "done" ELSE "loop", max |-> max_query_by_id,
     groups |-> groups, count |-> 0, size |-> 0, last |-> 0, issued |-> 0, odd |-> FALSE]

\* The end of an iteration: the next `while` test, the next group of the
\* `for`, or the return
QueryNext(q) ==
    IF q.groups[1].left > 0 THEN q
    ELSE IF Len(q.groups) > 1 THEN [q EXCEPT !.groups = Tail(@)]
    ELSE [q EXCEPT !.groups = << >>, !.pc = "done"]

\* `results.append(self.get(query, fields=fields))` when the query is full
\* or the group is empty: the query goes out with the values it has.
\* issued counts the queries, up to most
QueryIssued(q, most) ==
    IF q.count >= q.max \/ q.groups[1].left = 0
    THEN QueryNext([q EXCEPT !.last = q.size, !.size = 0, !.count = 0,
                             !.issued = IF @ < most THEN @ + 1 ELSE @])
    ELSE QueryNext(q)

\* obj = obj_group.pop(): put back if its keys do not fit in the query any
\* more, else its values are added to the query.  odd tells whether the
\* number of iterations made is odd
QueryPopped(q) ==
    IF q.count + q.groups[1].keys > q.max
    THEN [q EXCEPT !.count = q.max + 1, !.odd = ~@]
    ELSE [q EXCEPT !.groups[1].left = @ - 1, !.odd = ~@,
                   !.count = @ + q.groups[1].keys, !.size = @ + q.groups[1].keys]

---------------------------------------------------------------------------
\* default_converters of the api of a model class (BaseApi.__init__)

\* DEFAULT_CONVERTERS, of the types used here: type -> converter
DefaultConverters == [t \in {"str", "int", "datetime"} |-> "default"]

\* The api classes: MySecondApi(MyFirstApi(BaseApi)), and the model classes
\* with the model class each directly inherits from ("" for BaseModel) and
\* the api class its `api` type hint resolves to
ApiBase(api_cls) == IF api_cls = "MySecondApi" THEN "MyFirstApi" ELSE "BaseApi"
ModelClasses == {"CommonModel", "MyFirstModel", "MySecondModel", "SoloModel"}
ModelBase(cls) == IF cls \in {"MyFirstModel", "MySecondModel"} THEN "CommonModel" ELSE ""
ModelApiCls(cls) ==
    IF cls \in {"MySecondModel", "SoloModel"} THEN "MySecondApi" ELSE "MyFirstApi"

\* No class under study
NoClasses ==
    [conv |-> [decl |-> EmptyDoc, built |-> EmptyDoc],
     flds |-> [decl |-> EmptyDoc, sets |-> << >>, fields |-> EmptyDoc]]

\* `type(self).default_converters`: the attribute as the class resolves it,
\* its own declaration or else that of the nearest base that has one; None
\* on BaseApi
ClassDefaultConverters(decl, api_cls) ==
    IF api_cls = "BaseApi" THEN None
    ELSE IF api_cls \in DOMAIN decl THEN DictV(decl[api_cls])
    ELSE IF ApiBase(api_cls) \in DOMAIN decl THEN DictV(decl[ApiBase(api_cls)])
    ELSE None

\* `x or {}`
OrEmpty(x) == IF x = None \/ x = DictV(EmptyDoc) THEN EmptyDoc ELSE x.d

\* {**DEFAULT_CONVERTERS, **(api.default_converters or {} if api else {}),
\*  **(type(self).default_converters or {})}
MergeConverters(a, b, c) == Merge(Merge(a, b), c)

\* BaseApi.__init__(api=base_api) for the api of model class cls: base_api is
\* the api of the model class cls directly inherits from
BuiltConverters(conv, cls) ==
    MergeConverters(DefaultConverters,
                    IF ModelBase(cls) = "" THEN EmptyDoc
                    ELSE OrEmpty(DictV(conv.built[ModelBase(cls)])),
                    OrEmpty(ClassDefaultConverters(conv.decl, ModelApiCls(cls))))

---------------------------------------------------------------------------
\* Field.resolve_defaults along a class hierarchy (base/fields.py)

\* The model classes that declare or inherit the field `value`:
\* FChildA(FParent), FChildB(FParent), FGrand(FChildA); "" for BaseModel
FieldClasses == {"FParent", "FChildA", "FChildB", "FGrand"}
FieldBase(cls) ==
    IF cls = "FGrand" THEN "FChildA" ELSE IF cls = "FParent" THEN "" ELSE "FParent"

\* The type hint of the field in each class
FieldTypeHint(cls) == IF cls = "FChildB" THEN "str" ELSE "int"

\* The options of a Field followed here
FieldOptions == {"read_only", "converter"}

\* The value an option is resolved to when nothing sets it: read_only False,
\* converter the default converter of the type hint
AutoResolved(option, type_hint) ==
    IF option = "read_only" THEN BoolV(FALSE) ELSE StrV(DefaultConverter(type_hint))

\* The options of the Field object as declared: Default where left out
AsDeclared(decl) == [n \in FieldOptions |-> Get(decl, n, Default)]

\* `options_explicitly_set_by_user = parent_field._options_explicitly_set_by_user`
\* (the parent's set itself) or `set()`: the place of the set among f.sets
ExplicitSetOf(f, base) ==
    IF base = "" THEN Len(f.sets) + 1 ELSE f.fields[base].set

\* The first loop: every option of the child that is not Default is added
WithChildOptions(f, ix, decl) ==
    IF ix > Len(f.sets) THEN Append(f.sets, DOMAIN decl)
    ELSE [f.sets EXCEPT ![ix] = @ \cup DOMAIN decl]

\* The loop over the parent's options: the parent's value is copied when the
\* child has Default, the parent has not, and the option is in the set
CopiedFromParent(vals, parent_vals, explicit) ==
    [n \in FieldOptions |->
        IF parent_vals[n] # Default /\ n \in explicit /\ vals[n] = Default
        THEN parent_vals[n] ELSE vals[n]]

\* The rest of resolve_defaults: read_only False when still Default; the
\* default converter of the type hint when the converter was Default before
\* the parent was looked at and is still None or Default
ResolvedRest(vals, was_default_before_parent, type_hint) ==
    [n \in FieldOptions |->
        IF n = "read_only" /\ vals[n] = Default THEN AutoResolved(n, type_hint)
        ELSE IF n = "converter" /\ n \in was_default_before_parent
                /\ vals[n] \in {None, Default}
        THEN AutoResolved(n, type_hint)
        ELSE IF vals[n] = Default THEN None ELSE vals[n]]

\* field_obj.resolve_defaults(name, type_hint, default_converter_map,
\* parent_field=base_fields.get(name)), sets being the sets after the first loop
ResolvedWith(f, cls, decl, ix, sets) ==
    [f EXCEPT !.sets = sets,
              !.fields = Put(@, cls,
                  [set |-> ix,
                   vals |-> ResolvedRest(
                       IF FieldBase(cls) = "" THEN AsDeclared(decl)
                       ELSE CopiedFromParent(AsDeclared(decl),
                                             f.fields[FieldBase(cls)].vals, sets[ix]),
                       FieldOptions \ DOMAIN decl, FieldTypeHint(cls))])]

ResolveDefaults(f, cls) ==
    ResolvedWith(f, cls, f.decl[cls], ExplicitSetOf(f, FieldBase(cls)),
                 WithChildOptions(f, ExplicitSetOf(f, FieldBase(cls)), f.decl[cls]))

RECURSIVE FieldMap(_, _)
\* structure.field_map of cls: generated once, after the field_map of the
\* class it inherits from
FieldMap(f, cls) ==
    IF cls \in DOMAIN f.fields THEN f
    ELSE IF FieldBase(cls) = "" THEN ResolveDefaults(f, cls)
    ELSE ResolveDefaults(FieldMap(f, FieldBase(cls)), cls)

---------------------------------------------------------------------------
\* ResponseState (remote/response_state.py)

\* ResponseState(): the class attributes
NewResponseState ==
    [had_error |-> None, field_errors |-> None, try_count |-> 0,
     should_retry_send |-> None]

\* had_error as an add_field_error that leaves it alone would have it
HadErrorKept(s) == s.had_error

\* had_error after add_field_error
HadErrorAdded(s) == BoolV(TRUE)

\* add_field_error(field, code, other): the message {**(other or {}),
\* "code": code} is appended to the list of the field
AddFieldErrorTo(s, field, code, other) ==
    [s EXCEPT !.field_errors =
                  DictV(Put(OrEmpty(s.field_errors), field,
                            Append(Get(OrEmpty(s.field_errors), field, << >>),
                                   Put(OrEmpty(other), "code", code)))),
              !.had_error = HadErrorAdded(s)]

\* Truthiness of had_error
Truthy(v) == v = BoolV(TRUE)

\* has_field_error(field, code)
HasFieldErrorIn(s, field, code) ==
    IF ~Truthy(s.had_error) THEN FALSE
    ELSE IF s.field_errors = None \/ s.field_errors.d = EmptyDoc THEN FALSE
    ELSE IF Get(s.field_errors.d, field, << >>) = << >> THEN FALSE
    ELSE \E i \in 1..Len(s.field_errors.d[field]) :
            Get(s.field_errors.d[field][i], "code", None) = code

\* mark_for_no_errors()
MarkedForNoErrors(s) == [s EXCEPT !.had_error = BoolV(FALSE), !.field_errors = None]

\* reset(for_retry=...)
ResetState(s, for_retry) ==
    [NewResponseState EXCEPT !.try_count = IF for_retry THEN s.try_count ELSE 0]

\* retry_send(retry_value)
RetrySent(s, retry_value) ==
    [s EXCEPT !.should_retry_send =
                  IF retry_value = BoolV(TRUE) THEN StrV("AS_IS")
                  ELSE IF retry_value = BoolV(FALSE) THEN StrV("EXPORT_JSON_AGAIN")
                  ELSE retry_value]

---------------------------------------------------------------------------
\* Options of a model class (xmodel/remote/options.py, RemoteApi.options)

\* The option attributes of ApiOptions used here, and their class defaults
OptionNames == {"cache_by_id", "error_handler"}
OptionDefault(name) == IF name = "cache_by_id" THEN BoolV(FALSE) ELSE None

\* ApiOptionsGroup.__init__: no ApiOptions for the model class yet.  A group
\* is [made, d]: whether it holds an ApiOptions object for the class, and
\* that object's __dict__.
NewGroup == [made |-> FALSE, d |-> EmptyDoc]

\* structure.api_options of a class declared without api_options: ApiOptions()
StructureApiOptions == [made |-> TRUE, d |-> EmptyDoc]

\* The root context, with its ApiOptionsGroup
CtxInit == [options |-> << NewGroup >>]

\* ApiOptionsGroup.get(api=api, create_if_needed=True) on the current group
OptionsCreated(groups) == [groups EXCEPT ![Len(groups)].made = TRUE]

\* A group stack whose assignments all go to the outermost group
SetOptionOutermost(groups, name, value) ==
    [groups EXCEPT ![1].made = TRUE, ![1].d = Put(@, name, value)]

\* `api.options.<name> = value`
SetOptionIn(groups, name, value) ==
    [OptionsCreated(groups) EXCEPT ![Len(groups)].d = Put(@, name, value)]

\* `api.options.<name>`: the attribute of the current group's ApiOptions
GetOptionIn(groups, name) == Get(groups[Len(groups)].d, name, OptionDefault(name))

RECURSIVE OptionValues(_, _, _)
\* The loop of option_all_for_name over options_to_check: the options of
\* the groups from the current one outwards (i from Len(groups) down to 1),
\* then structure.api_options (i = 0)
OptionValues(groups, name, i) ==
    IF i = 0
    THEN IF name \in DOMAIN StructureApiOptions.d
         THEN << StructureApiOptions.d[name] >> ELSE << >>
    ELSE IF groups[i].made /\ name \in DOMAIN groups[i].d
    THEN << groups[i].d[name] >> \o OptionValues(groups, name, i - 1)
    ELSE OptionValues(groups, name, i - 1)

\* option_all_for_name, end: with no value, the class default unless None.
\* self.options creates the current group's ApiOptions if needed.
OptionAllDefault(name, values) ==
    IF values # << >> THEN values
    ELSE IF OptionDefault(name) # None THEN << OptionDefault(name) >>
    ELSE << >>

\* RemoteApi.option_all_for_name
OptionAllForName(groups, name) ==
    OptionAllDefault(name, OptionValues(groups, name, Len(groups)))

\* RemoteApi.option_for_name
OptionForName(groups, name) ==
    IF OptionAllForName(groups, name) # << >> THEN OptionAllForName(groups, name)[1] ELSE None

---------------------------------------------------------------------------
\* Attribute read, with the lazy fetch of a related object

\* What get_via_id returns once the client has answered with a record
Fetched(new_r, built) ==
    Res(built.h, IF built.raised = "none" THEN ObjV(new_r) ELSE None, built.raised, 1)

\* RemoteApi.get_via_id for a single id, all caches disabled (the default):
\* one client.get_first call, whose answer is either nothing or a new
\* instance built from the record the client got for that id.
GetViaId(h, cls, id, answer) ==
    IF id = None THEN Res(h, None, "none", 0)
    ELSE IF answer = "nothing" THEN Res(h, None, "none", 1)
    ELSE Fetched(Len(h) + 1, NewModel(h, cls, DictV([k \in {"id"} |-> id])))

\* get_via_id(id), the client asked: client.get_first gave nothing, or the
\* object the client built from the record, cached by its update_from_json
GetViaIdSingleMade(c, cls, id, cache_by_id, built, new_r) ==
    [h |-> built.h,
     c |-> CacheById(CacheWeakSet(c, cls, id, new_r), built.h, cls, id, new_r, cache_by_id),
     ret |-> IF built.raised = "none" THEN ObjV(new_r) ELSE None,
     fetched |-> 1]

GetViaIdSingleGot(h, c, cls, id, answer, cache_by_id, obj) ==
    IF obj # 0 THEN [h |-> h, c |-> c, ret |-> ObjV(obj), fetched |-> 0]
    ELSE IF answer = "nothing" THEN [h |-> h, c |-> c, ret |-> None, fetched |-> 1]
    ELSE GetViaIdSingleMade(c, cls, id, cache_by_id,
                            NewModel(h, cls, DictV([k \in {"id"} |-> id])), Len(h) + 1)

\* RemoteApi.get_via_id(id) for one int id: the weak cache, with the option
\* cache_by_id also the strong cache, and only then the client
GetViaIdSingle(h, c, cls, id, answer, cache_by_id) ==
    GetViaIdSingleGot(h, c, cls, id, answer, cache_by_id,
                      IF cache_by_id = BoolV(TRUE) THEN CacheGet(c, cls, id)
                      ELSE Get(c.weak, IdCacheKey(cls, id), 0))

\* __getattr__, last lines: the field's default is stored and returned
\* unless it is None
GetAttrDefault(h, r, name, field, default, n) ==
    IF IsRaise(default) THEN Res(h, None, default.e, n)
    ELSE IF default # None THEN ReturnDefault(r, name, field, CallDefault(h, default), n)
    ELSE Res(h, None, "none", n)

\* __getattr__ after get_via_id returned, the object found not stored
GetAttrFetchedNoStore(r, name, field, got) ==
    IF got.raised # "none" \/ got.ret # None THEN got
    ELSE GetAttrDefault(got.h, r, name, field, GetDefaultValueFromField(field), got.fetched)

\* __getattr__ after get_via_id returned
GetAttrFetched(r, name, field, got) ==
    IF got.raised # "none" THEN got
    ELSE IF got.ret # None
    THEN \* stored with super().__setattr__: the pending id is left in place
         Res(SetAttrs(got.h, r, StoreName(field, name), got.ret), got.ret, "none",
             got.fetched)
    ELSE GetAttrDefault(got.h, r, name, field, GetDefaultValueFromField(field), got.fetched)

\* __getattr__ for a relationship whose related type has an id field
GetAttrLazy(h, r, name, field, name_id_value, answer) ==
    IF name_id_value \in {Null, None}
    THEN GetAttrDefault(h, r, name, field, GetDefaultValueFromField(field), 0)
    ELSE GetAttrFetched(r, name, field,
                        GetViaId(h, field.related_type, name_id_value, answer))

GetAttrField(h, r, name, field, answer) ==
    IF field.related_type # "none" /\ HasIdField(field.related_type)
    THEN GetAttrLazy(h, r, name, field, GetRelatedFieldId(h, r, name), answer)
    ELSE GetAttrDefault(h, r, name, field, GetDefaultValueFromField(field), 0)

\* field.fget(self): the value of the attribute the getter override reads,
\* None without a getter
FgetOf(h, r, field) == IF field.fget = "none" THEN None ELSE Get(h[r].attrs, field.fget, None)

FgetValue(h, r, name) ==
    IF FieldExists(h[r].cls, name) THEN FgetOf(h, r, GetField(h[r].cls, name)) ELSE None

\* __getattr__ after the getter override: its value if it gave one
GetAttrAfterFget(h, r, name, answer, value) ==
    IF value # None THEN Res(h, value, "none", 0)
    ELSE IF EndsWithId(name) /\ IsFieldAChild(h[r].cls, BaseOfId(name), TRUE)
       /\ GetRelatedFieldId(h, r, BaseOfId(name)) # None
    THEN Res(h, GetRelatedFieldId(h, r, BaseOfId(name)), "none", 0)
    ELSE IF ~FieldExists(h[r].cls, name) THEN Res(h, None, "AttributeError", 0)
    ELSE GetAttrField(h, r, name, GetField(h[r].cls, name), answer)

\* BaseModel.__getattr__: runs when the name is not set on the instance.
GetAttrMissing(h, r, name, answer) ==
    GetAttrAfterFget(h, r, name, answer, FgetValue(h, r, name))

\* getattr(model, name)
GetAttr(h, r, name, answer) ==
    IF name \in DOMAIN h[r].attrs THEN Res(h, h[r].attrs[name], "none", 0)
    ELSE GetAttrMissing(h, r, name, answer)

RECURSIVE CopyFromModel(_, _, _, _)

\* setattr(my_model, k, their_value), then the next key
CopyFieldSet(me, model, i, set) ==
    IF set.raised # "none" THEN set ELSE CopyFromModel(set.h, me, model, i + 1)

\* their_value = getattr(model, k): it is set on the copy when it is not None
CopyFieldGot(me, model, i, k, got) ==
    IF got.raised # "none" THEN got
    ELSE IF got.ret = None THEN CopyFromModel(got.h, me, model, i + 1)
    ELSE CopyFieldSet(me, model, i, SetAttr(got.h, me, k, got.ret))

\* One key of copy_from_model
CopyField(h, me, model, i, their_fields) ==
    IF i > Len(their_fields) THEN Res(h, None, "none", 0)
    ELSE IF their_fields[i].name \notin FieldNames(h[me].cls)
    THEN CopyFromModel(h, me, model, i + 1)
    ELSE CopyFieldGot(me, model, i, their_fields[i].name,
                      GetAttr(h, model, their_fields[i].name, "nothing"))

\* BaseApi.copy_from_model: every field of the other model that this model
\* has too is read from the other model and, unless None, set on this one.
\* What is set is the value that was read, not a copy of it.
CopyFromModel(h, me, model, i) == CopyField(h, me, model, i, FieldSeq(h[model].cls))

\* The copy made of a model-instance default, in place of the default
StoreCopy(res, r, name, copied) ==
    IF copied.raised # "none" THEN Res(copied.h, None, copied.raised, res.fetched)
    ELSE Res(SetAttrs(copied.h, r, name, ObjV(Len(res.h) + 1)),
             IF res.ret = None THEN None ELSE ObjV(Len(res.h) + 1), "none", res.fetched)

\* _get_default_value_from_field for a default that is a model instance:
\* `type(default)(default)`, a new instance of the default's class that
\* BaseModel.__init__ fills with copy_from_model.  GetAttr and SetAttr end
\* with the declared default as the value of the field; the copy takes its
\* place here.  The copy reads the declared default and writes the new
\* instance only, so the outcome is that of copying before the store.
WithCopy(res, r, name) ==
    IF res.raised = "none" /\ Get(res.h[r].attrs, name, None).t = "inst"
    THEN StoreCopy(res, r, name,
                   CopyFromModel(Append(res.h, NewObj(res.h[r].attrs[name].cls)),
                                 Len(res.h) + 1, res.h[r].attrs[name].r, 1))
    ELSE res

\* forget_original_json_state
ForgetOriginalJsonState(h, r) == [h EXCEPT ![r].last = None]

---------------------------------------------------------------------------
\* Export: BaseApi.json and its changes-only diff (xmodel/base/api.py)

\* set_value_into_json_dict: None is skipped, Null becomes JSON null
SetValueIntoJsonDict(json, value, field_name) ==
    IF value = None THEN json
    ELSE Put(json, field_name, IF value = Null THEN None ELSE value)

\* An export that sets every value at the top level, under the last name
\* of its json_path
SetValueAtPathFlat(json, value, path) == SetValueIntoJsonDict(json, value, path[Len(path)])

\* The walk of json() along json_path with setdefault, then the set.
SetValueAtPath(json, value, path) ==
    IF Len(path) = 1 THEN SetValueIntoJsonDict(json, value, path[1])
    ELSE Put(json, path[1],
             DictV(SetValueIntoJsonDict(
                      IF path[1] \in DOMAIN json THEN json[path[1]].d ELSE EmptyDoc,
                      value, path[2])))

\* A diff that compares the raw last-known value, with no str/int coercion
CoerceOldNever(old_value, new_value) == old_value

\* as_type(old_value) of _get_old_json_value, between str and int
CoerceOld(old_value, new_value) ==
    IF new_value.t = old_value.t \/ new_value.t \notin {"str", "int"}
       \/ old_value.t \notin {"str", "int"}
    THEN old_value
    ELSE IF new_value.t = "str" THEN StrV(StrOfInt(old_value.n))
    ELSE IF old_value.s \in NumStrs THEN IntV(IntOfStr(old_value.s))
    ELSE old_value

\* _get_old_json_value
GetOldJsonValue(h, r, field, new_value) ==
    IF h[r].last = None THEN Default
    ELSE IF field \notin DOMAIN h[r].last.d THEN Default
    ELSE CoerceOld(h[r].last.d[field], new_value)

\* A diff that never reports a null
ShouldIncludeNonNull(new_value, old_value) == new_value # old_value /\ new_value # None

\* A diff that reports every exported field
ShouldIncludeAlways(new_value, old_value) == TRUE

\* should_include_field_in_json
ShouldIncludeFieldInJson(new_value, old_value) == new_value # old_value

\* A diff without the include_with_fields pass
KeepIncludedNever(cls, fields_to_pop, i) == fields_to_pop

RECURSIVE KeepIncluded(_, _, _)
\* The second loop of fields_to_pop_for_json: a field that is to be popped is
\* kept when one of its include_with_fields is not popped.
KeepIncluded(cls, fields_to_pop, i) ==
    IF i > Len(FieldSeq(cls)) THEN fields_to_pop
    ELSE IF FieldSeq(cls)[i].include_with_fields = {}
            \/ FieldSeq(cls)[i].name \notin fields_to_pop
            \/ FieldSeq(cls)[i].include_with_fields \subseteq fields_to_pop
    THEN KeepIncluded(cls, fields_to_pop, i + 1)
    ELSE KeepIncluded(cls, fields_to_pop \ {FieldSeq(cls)[i].name}, i + 1)

\* The first loop of fields_to_pop_for_json: the keys whose value is the
\* last-known one
UnchangedKeys(h, r, json) ==
    {f \in DOMAIN json :
        /\ GetOldJsonValue(h, r, f, json[f]) # Default
        /\ ~ShouldIncludeFieldInJson(json[f], GetOldJsonValue(h, r, f, json[f]))}

\* fields_to_pop_for_json
FieldsToPopForJson(h, r, json) == KeepIncluded(h[r].cls, UnchangedKeys(h, r, json), 1)

RECURSIVE Json(_, _, _)
RECURSIVE JsonRelated(_, _, _, _, _)

\* `if v is not None or not only_include_changes: set_value_into_json_dict(v, f)`
JsonChildValue(h, r, only, json, i, f, v) ==
    IF v # None \/ ~only
    THEN JsonRelated(h, r, only, SetValueIntoJsonDict(json, v, f), i + 1)
    ELSE JsonRelated(h, r, only, json, i + 1)

\* sub is obj.api.json(only_include_changes=only_include_changes)
JsonChildExport(r, only, json, i, f, sub) ==
    IF sub.raised # "none" THEN sub
    ELSE JsonChildValue(sub.h, r, only, json, i, f, sub.ret)

\* An export that always asks the related object for its full export
JsonChildFull(r, only, json, i, f, obj) ==
    IF obj.raised # "none" THEN obj
    ELSE IF obj.ret \in {Null, None}
    THEN JsonChildValue(obj.h, r, only, json, i, f, obj.ret)
    ELSE JsonChildExport(r, only, json, i, f, Json(obj.h, obj.ret.r, FALSE))

\* obj is getattr(model, f) of a relationship whose related type has no id field
JsonChild(r, only, json, i, f, obj) ==
    IF obj.raised # "none" THEN obj
    ELSE IF obj.ret \in {Null, None}
    THEN JsonChildValue(obj.h, r, only, json, i, f, obj.ret)
    ELSE JsonChildExport(r, only, json, i, f, Json(obj.h, obj.ret.r, only))

\* An export that reads the related object, getattr(model, f), to learn its id
JsonRelatedFieldRead(h, r, only, json, i, field_obj) ==
    IF field_obj.read_only \/ field_obj.related_type = "none"
    THEN JsonRelated(h, r, only, json, i + 1)
    ELSE LET obj == GetAttr(h, r, field_obj.name, "found")
         IN IF obj.raised # "none" THEN obj
            ELSE JsonRelated(obj.h, r, only,
                             SetValueIntoJsonDict(json,
                                 IF obj.ret \in {Null, None} THEN obj.ret ELSE IdOf(obj.h, obj.ret),
                                 IdNameOf(field_obj.name)),
                             i + 1)

JsonRelatedField(h, r, only, json, i, field_obj) ==
    IF field_obj.read_only \/ field_obj.related_type = "none"
    THEN JsonRelated(h, r, only, json, i + 1)
    ELSE IF field_obj.json_path # <<field_obj.name>>
    THEN Res(h, json, "NotImplementedError", 0)
    ELSE IF HasIdField(field_obj.related_type)
    THEN JsonRelated(h, r, only,
                     SetValueIntoJsonDict(json, GetRelatedFieldId(h, r, field_obj.name),
                                          IdNameOf(field_obj.name)),
                     i + 1)
    ELSE JsonChild(r, only, json, i, field_obj.name,
                   GetAttr(h, r, field_obj.name, "nothing"))

\* The first loop of json(): the relationship fields.  The result's ret is the
\* json dict built so far.
JsonRelated(h, r, only, json, i) ==
    IF i > Len(FieldSeq(h[r].cls)) THEN Res(h, json, "none", 0)
    ELSE JsonRelatedField(h, r, only, json, i, FieldSeq(h[r].cls)[i])

RECURSIVE JsonPlain(_, _, _, _)

JsonPlainValue(h, r, json, i, path, v) ==
    IF IsRaise(v) THEN Res(h, json, v.e, 0)
    ELSE JsonPlain(h, r, SetValueAtPath(json, v, path), i + 1)

\* got is getattr(model, f); its value goes through the field's converter
JsonPlainGot(r, json, i, field_obj, got) ==
    IF got.raised # "none" THEN got
    ELSE JsonPlainValue(got.h, r, json, i, field_obj.json_path,
                        IF got.ret # None /\ field_obj.converter # "none"
                        THEN Convert("to_json", field_obj, got.ret) ELSE got.ret)

JsonPlainField(h, r, json, i, field_obj) ==
    IF field_obj.read_only \/ field_obj.related_type # "none"
    THEN JsonPlain(h, r, json, i + 1)
    ELSE JsonPlainGot(r, json, i, field_obj, GetAttr(h, r, field_obj.name, "nothing"))

\* The second loop of json(): the fields that are not relationships.
JsonPlain(h, r, json, i) ==
    IF i > Len(FieldSeq(h[r].cls)) THEN Res(h, json, "none", 0)
    ELSE JsonPlainField(h, r, json, i, FieldSeq(h[r].cls)[i])

\* json(), end: in changes-only mode an empty dict is returned as None
JsonChanges(h, json) ==
    IF json = EmptyDoc THEN Res(h, None, "none", 0) ELSE Res(h, DictV(json), "none", 0)

\* json(), the diff against the last-known document
JsonDiff(r, only, plain) ==
    IF plain.raised # "none" THEN plain
    ELSE IF ~only THEN Res(plain.h, DictV(plain.ret), "none", 0)
    ELSE JsonChanges(plain.h, Drop(plain.ret, FieldsToPopForJson(plain.h, r, plain.ret)))

JsonAfterRelated(r, only, related) ==
    IF related.raised # "none" THEN related
    ELSE JsonDiff(r, only, JsonPlain(related.h, r, related.ret, 1))

\* only_include_changes is negated when there is no last-known document
JsonWith(h, r, only) == JsonAfterRelated(r, only, JsonRelated(h, r, only, EmptyDoc, 1))

\* An export that keeps only_include_changes when there is no last-known document
JsonNeverNegated(h, r, only_include_changes) == JsonWith(h, r, only_include_changes)

\* BaseApi.json: ret is the exported dict, or None
Json(h, r, only_include_changes) ==
    JsonWith(h, r, only_include_changes /\ h[r].last # None)

\* RemoteApi.json, last lines: the fields to pop are deleted, except 'id'; a
\* document left with an unchanged id alone is not returned
RemoteJsonPopped(h, json, fields_to_pop) ==
    IF "id" \in fields_to_pop /\ DOMAIN json \ fields_to_pop = {} /\ json["id"] # None
    THEN Res(h, None, "none", 0)
    ELSE Res(h, DictV(Drop(json, fields_to_pop \ {"id"})), "none", 0)

\* json['id'] = model.id has been done
RemoteJsonDiff(h, r, only, json) ==
    IF only THEN RemoteJsonPopped(h, json, FieldsToPopForJson(h, r, json))
    ELSE Res(h, DictV(json), "none", 0)

\* A RemoteApi.json that adds the id to an export with nothing else to send
RemoteJsonWithIdAlways(r, only, base, id) ==
    IF base.raised # "none" \/ id = None THEN base
    ELSE Res(base.h, DictV(Put(IF base.ret = None THEN EmptyDoc ELSE base.ret.d, "id", id)),
             "none", 0)

\* RemoteApi.json after super().json(): base is its outcome, id is model.id
RemoteJsonWithId(r, only, base, id) ==
    IF base.raised # "none" \/ base.ret \in {None, DictV(EmptyDoc)} \/ id = None THEN base
    ELSE RemoteJsonDiff(base.h, r, only, Put(base.ret.d, "id", id))

\* A RemoteApi.json that keeps only_include_changes when model.id is None
RemoteJsonKeepOnly(h, r, only_include_changes) ==
    RemoteJsonWithId(r, only_include_changes, Json(h, r, only_include_changes),
                     IdOf(h, ObjV(r)))

\* RemoteApi.json: only_include_changes is negated when model.id is None
RemoteJson(h, r, only_include_changes) ==
    RemoteJsonWithId(r, only_include_changes /\ IdOf(h, ObjV(r)) # None,
                     Json(h, r, only_include_changes /\ IdOf(h, ObjV(r)) # None),
                     IdOf(h, ObjV(r)))

\* model.api.json: the json of the model's api class
ApiJson(h, r, only_include_changes) ==
    IF HasIdField(h[r].cls) THEN RemoteJson(h, r, only_include_changes)
    ELSE Json(h, r, only_include_changes)

---------------------------------------------------------------------------
\* Bounds and input domains

\* Most instances constructed.
MaxHeap == 2
\* Most lists made by a callable default.
MaxLists == 3
\* Most items appended to a list.
MaxItems == 2
\* Most instances of a class used as a default: the declared one and its copies.
MaxCopies == 3
\* The classes whose instances are declared as field defaults
DefaultClasses == {"EModel"}
\* Most documents imported into instance 1 between two forgets.
MaxImports == 2

\* The instances of class cls
Instances(h, cls) == {ObjV(r) : r \in {x \in DOMAIN h : h[x].cls = cls}}

\* Values a caller assigns to an attribute.
AttrValues(h, cls, name) ==
    CASE cls = "AModel" /\ name = "a_field" -> {StrV("x"), StrV("y"), None, Null}
      [] cls = "AModel" /\ name = "b_field" ->
           {IntV(1), IntV(2), StrV("1"), StrV("x"), None, Null}
      [] cls = "IParent" /\ name = "child" -> Instances(h, "RChild") \cup {None}
      [] cls = "IParent" /\ name = "child_id" -> {IntV(1), StrV("1"), StrV("2"), Null}
      [] cls = "JModel" /\ name = "field_str" -> {StrV("y")}
      [] cls = "JModel" /\ name = "field_int" -> {IntV(1), IntV(2), Null}
      [] cls = "JParent" /\ name = "p_field_int" -> {IntV(2)}
      [] cls = "JParent" /\ name = "embedded" -> Instances(h, "JModel")
      [] cls = "DModel" /\ name = "field_list" -> {None}
      [] cls = "PathModel" /\ name = "nested" -> {StrV("y")}
      [] cls = "PathModel" /\ name = "count" -> {IntV(2)}
      [] cls = "PParent" /\ name = "child" -> Instances(h, "RChild") \cup {None}
      [] cls = "PParent" /\ name = "child_id" -> {IntV(1), Null}
      [] cls = "PParent" /\ name = "p_field" -> {StrV("x"), StrV("y")}
      [] cls = "REParent" /\ name = "id" -> {None}
      [] cls = "REParent" /\ name = "parent_field" -> {StrV("y")}
      [] cls = "RModel" /\ name = "id" -> {IntV(2), None}
      [] cls = "RModel" /\ name = "a_field" -> {StrV("y")}
      [] cls = "RModel" /\ name = "b_field" -> {IntV(2)}
      [] cls = "RModel" /\ name = "ro_field" -> {StrV("x")}
      [] cls = "RoModel" /\ name = "id" -> {IntV(2)}
      [] cls = "RoModel" /\ name = "a_field" -> {StrV("y")}
      [] cls = "RParent" /\ name = "child" -> Instances(h, "RChild") \cup {Null, None}
      [] cls = "TestModel" /\ name = "json_path_field" -> {StrV("x")}
      [] cls = "TestModel" /\ name = "count" -> {IntV(1), Null}
      [] cls = "TestModel" /\ name = "ro_field" -> {StrV("x")}
      [] cls = "TestModel" /\ name = "field_str" -> {StrV("y"), None}
      [] cls = "TestModel" /\ name = "a_datetime_field" ->
           {DtV(1, "utc"), DtV(1, "naive"), DtV(2, "other")}
      [] cls = "RParent" /\ name = "child_id" -> {IntV(1), IntV(2), Null}
      [] cls = "RChild" /\ name = "id" -> {IntV(1), None}
      [] cls = "GModel" /\ name = "a_field" -> {StrV("x"), None}
      [] cls = "GModel" /\ name = "g_field" -> {IntV(1), StrV("1"), StrV("x"), None, Null}
      [] cls = "GModel" /\ name = "child" -> Instances(h, "RChild") \cup {Null, None}
      [] cls = "GModel" /\ name = "child_id" -> {IntV(1), IntV(2), Null}
      [] cls = "GModel" /\ name = "_g_field_storage" -> {IntV(1), IntV(2)}
      [] OTHER -> {}

\* The names a caller reads and assigns: the fields, and the virtual
\* `{name}_id` of each relationship to a class with an id field
AttrNames(cls) ==
    FieldNames(cls) \cup {IdNameOf(f) : f \in {x \in FieldNames(cls) : IsFieldAChild(cls, x, TRUE)}}

\* Values a document has at a key.
KeyValues(cls, k) ==
    CASE cls = "AModel" /\ k = "a_field" -> {StrV("x"), StrV("y")}
      [] cls = "AModel" /\ k = "b_field" -> {IntV(1), StrV("1"), StrV("x"), StrV(""), None}
      [] cls = "IParent" /\ k = "child_id" -> {IntV(1), StrV("1"), StrV("2"), None}
      [] cls = "JModel" /\ k = "field_str" -> {StrV("x"), StrV("y")}
      [] cls = "JModel" /\ k = "field_int" -> {IntV(1), StrV("x")}
      [] cls = "JParent" /\ k = "p_field_int" -> {IntV(1)}
      [] cls = "JParent" /\ k = "embedded" ->
           {DictV([f \in {"field_str", "field_int"} |->
                     IF f = "field_str" THEN StrV("x") ELSE IntV(1)])}
      [] cls = "PathModel" /\ k = "outer" ->
           {DictV([f \in {"value"} |-> StrV("x")]), DictV([f \in {"count"} |-> IntV(1)]),
            IntV(1), None}
      [] cls = "PathModel" /\ k = "nested" -> {StrV("z")}
      [] cls = "PParent" /\ k = "child_id" -> {IntV(1), None}
      [] cls = "PParent" /\ k = "p_field" -> {StrV("x")}
      [] cls = "REParent" /\ k = "id" -> {IntV(1)}
      [] cls = "REParent" /\ k = "parent_field" -> {StrV("x")}
      [] cls = "REParent" /\ k = "embedded" ->
           {DictV([f \in {"field_str", "field_int"} |->
                     IF f = "field_str" THEN StrV("x") ELSE IntV(1)])}
      [] cls = "RModel" /\ k = "id" -> {IntV(1), StrV("1")}
      [] cls = "RModel" /\ k = "a_field" -> {StrV("x")}
      [] cls = "RModel" /\ k = "b_field" -> {IntV(1)}
      [] cls = "RoModel" /\ k = "id" -> {IntV(1)}
      [] cls = "RoModel" /\ k = "a_field" -> {StrV("x")}
      [] cls = "RParent" /\ k = "child" -> {None}
      [] cls = "RParent" /\ k = "child_id" -> {IntV(1), None}
      [] cls = "TestModel" /\ k = "outer" ->
           {DictV([f \in {"value", "count"} |-> IF f = "value" THEN StrV("x") ELSE None])}
      [] cls = "TestModel" /\ k = "a_datetime_field" -> {StrV("T2")}
      [] OTHER -> {}

DocKeys(cls) ==
    CASE cls = "AModel" -> {"a_field", "b_field"}
      [] cls = "IParent" -> {"child_id"}
      [] cls = "JModel" -> {"field_str", "field_int"}
      [] cls = "JParent" -> {"p_field_int", "embedded"}
      [] cls = "PathModel" -> {"outer", "nested"}
      [] cls = "PParent" -> {"child_id", "p_field"}
      [] cls = "REParent" -> {"id", "embedded", "parent_field"}
      [] cls = "RModel" -> {"id", "a_field", "b_field"}
      [] cls = "RoModel" -> {"id", "a_field"}
      [] cls = "RParent" -> {"child", "child_id"}
      [] cls = "TestModel" -> {"outer", "a_datetime_field"}
      [] OTHER -> {}

\* Documents a caller imports: any subset of the keys, each with one of its values.
Docs(cls) ==
    UNION {{d \in [ks -> UNION {KeyValues(cls, k) : k \in ks}] :
               \A k \in ks : d[k] \in KeyValues(cls, k)} : ks \in SUBSET DocKeys(cls)}

Op(name, r, field, arg, only) ==
    [name |-> name, r |-> r, field |-> field, arg |-> arg, only |-> only]

---------------------------------------------------------------------------
\* Operations on the instances

\* The state after an operation with result res
DoneWith(res, o, hs, c) ==
    /\ Cardinality({x \in DOMAIN res.h : res.h[x].cls \notin DefaultClasses \cup {"list"}})
           <= MaxHeap
    /\ Cardinality({x \in DOMAIN res.h : res.h[x].cls \in DefaultClasses}) <= MaxCopies
    /\ Cardinality({x \in DOMAIN res.h : res.h[x].cls = "list"}) <= MaxLists
    /\ heap' = res.h
    /\ op' = o
    /\ ret' = IF res.raised = "none"
                   /\ o.name \in {"getattr", "json", "round_trip", "get_via_id"}
              THEN res.ret ELSE None
    /\ raised' = res.raised
    /\ fetches' = res.fetched
    /\ hist' = hs
    /\ client' = c
    /\ UNCHANGED <<classes, response, ctx, lazy, query>>

\* The state after an operation with result res: RemoteApi.update_from_json
\* ends with `if id_value: self.client.cache_weak_set(...)`
Done(res, o, hs) ==
    DoneWith(res, o, hs,
             IF o.name = "update_from_json" /\ res.raised = "none"
                /\ HasIdField(heap[o.r].cls)
             THEN CacheById(CacheWeakSet(client, heap[o.r].cls, Get(o.arg.d, "id", None), o.r),
                            res.h, heap[o.r].cls, Get(o.arg.d, "id", None), o.r,
                            OptionForName(ctx.options, "cache_by_id"))
             ELSE client)

\* setattr(heap[r], name, value)
Assign(r, name, value) ==
    Done(WithCopy(SetAttr(heap, r, name, value), r, name),
         Op("setattr", r, name, value, FALSE), hist)

\* getattr(heap[r], name); answer is what the client finds if it is asked
Read(r, name, answer) ==
    /\ answer = "found" =>
          /\ name \notin DOMAIN heap[r].attrs
          /\ IsFieldAChild(heap[r].cls, name, TRUE)
          /\ GetRelatedFieldId(heap, r, name) \notin {None, Null}
    /\ Done(WithCopy(GetAttr(heap, r, name, answer), r, name),
            Op("getattr", r, name, StrV(answer), FALSE), hist)

\* heap[r].api.update_from_json(d)
Import(r, d) ==
    /\ (hist.on /\ r = 1) => Len(hist.docs) < MaxImports
    /\ Done(UpdateFromJson(heap, r, d), Op("update_from_json", r, "", DictV(d), FALSE),
            IF hist.on /\ r = 1 THEN [hist EXCEPT !.docs = Append(@, d)] ELSE hist)

\* heap[r].api.json(only_include_changes)
Export(r, only_include_changes) ==
    /\ Done(ApiJson(heap, r, only_include_changes),
            Op("json", r, "", None, only_include_changes), hist)

\* The fields a round trip is to reproduce
TripFields(cls) ==
    {f \in FieldNames(cls) :
        GetField(cls, f).related_type = "none" /\ ~GetField(cls, f).read_only}

\* getattr(copy, f) for each of these fields of the copy c
TripValues(h, c) ==
    DictV([f \in TripFields(h[c].cls) |-> GetAttr(h, c, f, "nothing").ret])

\* built is type(m)(exported): the copy c lives as long as its fields are read
TripBuilt(r, c, built) ==
    Done(Res(SubSeq(built.h, 1, c - 1),
             IF built.raised = "none" THEN TripValues(built.h, c) ELSE None,
             built.raised, 0),
         Op("round_trip", r, "", None, FALSE), hist)

TripExported(r, exported) ==
    IF exported.raised # "none"
    THEN Done(exported, Op("round_trip", r, "", None, FALSE), hist)
    ELSE TripBuilt(r, Len(exported.h) + 1, NewModel(exported.h, heap[r].cls, exported.ret))

\* copy = type(m)(m.api.json()) for m = heap[r], then the fields of copy read
RoundTrip(r) == TripExported(r, Json(heap, r, FALSE))

\* The second assignment of Toggle: s is the outcome of the first
ToggleBack(r, name, back, s) ==
    IF s.raised # "none" THEN Done(s, Op("toggle", r, name, back, FALSE), hist)
    ELSE Done(SetAttr(s.h, r, name, back), Op("toggle", r, name, back, FALSE), hist)

\* setattr(m, name, value); setattr(m, name, back) for m = heap[r], on a field
\* that holds its imported value: value is a different one, back is equal to
\* the imported one (the attribute's value, or the document's own value)
Toggle(r, name, value, back) ==
    /\ heap[r].last # None
    /\ name \in DOMAIN heap[r].last.d
    /\ name \in DOMAIN heap[r].attrs
    /\ Convert("to_json", GetField(heap[r].cls, name), heap[r].attrs[name])
          = CoerceOld(IF heap[r].last.d[name] = None THEN Null ELSE heap[r].last.d[name],
                      Convert("to_json", GetField(heap[r].cls, name), heap[r].attrs[name]))
    /\ value # heap[r].attrs[name]
    /\ back \in {heap[r].attrs[name], heap[r].last.d[name]} \ {None}
    /\ ToggleBack(r, name, back, SetAttr(heap, r, name, value))

\* The number of items of the list l
ItemsOf(h, l) == Get(h[l.r].attrs, "items", IntV(0)).n

\* getattr(heap[r], name).append(item): the list the attribute holds grows
AppendTo(r, name) ==
    /\ name \in DOMAIN heap[r].attrs
    /\ heap[r].attrs[name].t = "obj"
    /\ heap[heap[r].attrs[name].r].cls = "list"
    /\ ItemsOf(heap, heap[r].attrs[name]) < MaxItems
    /\ Done(Res(SetAttrs(heap, heap[r].attrs[name].r, "items",
                         IntV(ItemsOf(heap, heap[r].attrs[name]) + 1)), None, "none", 0),
            Op("append", r, name, None, FALSE), hist)

\* cls(): a new instance, with no argument
Construct(cls) ==
    Done(NewModel(heap, cls, None), Op("new", Len(heap) + 1, "", None, FALSE), hist)

\* cls() as the first use of the class: its field map is generated, and the
\* instance is made if that raised nothing
ConstructChecked(cls) ==
    Done(IF CheckFields(cls, 1) # "none"
         THEN Res(heap, None, CheckFields(cls, 1), 0)
         ELSE NewModel(heap, cls, None),
         Op("new", Len(heap) + 1, cls, None, FALSE), hist)

\* cls.api.get_via_id(ids) with a list; the client finds the ids in found
GetViaIds(cls, ids, found) ==
    /\ ids # {} /\ found \subseteq ids
    /\ LET got == GetViaIdList(heap, client, cls, ids, found)
       IN DoneWith(Res(got.h, got.ret, "none", 0),
                   Op("get_via_id", 0, cls, ListV(ids), FALSE), hist, got.c)

\* Passed through: the outcome of get_via_id(id)
GetViaIdDone(cls, id, got) ==
    DoneWith(Res(got.h, got.ret, "none", got.fetched), Op("get_via_id", 0, cls, id, FALSE),
             hist, got.c)

\* cls.api.get_via_id(id) with one id; the client, if asked, finds the
\* record or nothing
GetViaIdOne(cls, id, answer) ==
    GetViaIdDone(cls, id,
                 GetViaIdSingle(heap, client, cls, id, answer,
                                OptionForName(ctx.options, "cache_by_id")))

\* cls.api.client.clear_caches()
ClientClear ==
    DoneWith(Res(heap, None, "none", 0), Op("clear_caches", 0, "", None, FALSE), hist,
             ClientClearCaches(client))

\* heap[r].api.forget_original_json_state()
Forget(r) ==
    Done(Res(ForgetOriginalJsonState(heap, r), None, "none", 0),
         Op("forget", r, "", None, FALSE),
         IF r = 1 THEN [hist EXCEPT !.docs = << >>] ELSE hist)

\* The threads that access the class
NumThreads == 2
Threads == 1 .. NumThreads

\* A model class after __init_subclass__: its `api` attribute is the
\* LazyClassAttr (0), no BaseApi and no structure exist, no thread has started.
LazyInit ==
    [api |-> 0, structs |-> << >>, builds |-> 0,
     pc |-> [t \in Threads |-> "start"],
     mine |-> [t \in Threads |-> 0],
     inner |-> [t \in Threads |-> FALSE],
     made |-> [t \in Threads |-> 0],
     seen |-> [t \in Threads |-> 0]]

\* The state after construction, with the class declarations cl
InitDeclared(h, recording, enabled, cl) ==
    /\ classes = cl
    /\ query = NoQuery
    /\ response = NewResponseState
    /\ lazy = LazyInit
    /\ ctx = CtxInit
    /\ client = ClientInit(enabled)
    /\ heap = h
    /\ op = Op("init", 1, "", None, FALSE)
    /\ ret = None
    /\ raised = "none"
    /\ fetches = 0
    /\ hist = [on |-> recording, docs |-> << >>]

\* The state after construction of instances of the classes of Fields
InitPooled(h, recording, enabled) == InitDeclared(h, recording, enabled, NoClasses)

\* The state after construction, the WeakCachePool left disabled (its default)
InitWith(h, recording) == InitPooled(h, recording, FALSE)

---------------------------------------------------------------------------
\* First access to a model class by several threads (SpecLazy).  A step is
\* what a thread does between two points where the interpreter may switch
\* threads; nothing in the code takes a lock.

LazyStep(t, from, l) ==
    /\ lazy.pc[t] = from
    /\ lazy' = l
    /\ UNCHANGED <<heap, op, ret, raised, fetches, hist, client, classes, response, ctx,
                   query>>

\* `cls.api`: the class attribute is the LazyClassAttr, whose __get__ calls
\* lazy_setup_api, or it is the BaseApi a thread has stored there.
LazyGet(t) ==
    LazyStep(t, "start",
        IF lazy.api = 0
        THEN [lazy EXCEPT !.pc[t] = "setup"]
        ELSE [lazy EXCEPT !.pc[t] = "field_map", !.mine[t] = lazy.api])

\* lazy_setup_api: `api = api_cls(api=base_api); cls.api = api`, the new
\* BaseApi has a structure with no type hints and no fields cache.
LazySetupApi(t) ==
    LazyStep(t, "setup",
        [lazy EXCEPT !.structs = Append(@, [hints |-> FALSE, cache |-> 0]),
                     !.api = Len(lazy.structs) + 1,
                     !.mine[t] = Len(lazy.structs) + 1,
                     !.pc[t] = "configure"])

\* configure_for_model_type: stores the type hints and model_cls, then reads
\* self.fields.
ConfigureForModelType(t) ==
    LazyStep(t, "configure",
        [lazy EXCEPT !.structs[lazy.mine[t]].hints = TRUE,
                     !.inner[t] = TRUE,
                     !.pc[t] = "field_map"])

\* field_map returns: into configure_for_model_type, or to the caller.
FieldMapReturn(l, t, map) ==
    IF l.inner[t]
    THEN [l EXCEPT !.pc[t] = "publish"]
    ELSE [l EXCEPT !.pc[t] = "done", !.seen[t] = map]

\* field_map: `cached_content = self._get_fields_cache`, returned if not None.
FieldMapRead(t) ==
    LazyStep(t, "field_map",
        IF lazy.structs[lazy.mine[t]].cache # 0
        THEN FieldMapReturn(lazy, t, lazy.structs[lazy.mine[t]].cache)
        ELSE [lazy EXCEPT !.pc[t] = "generate"])

\* _generate_fields: builds a new map, resolve_defaults run on each Field;
\* on a structure that configure_for_model_type has not reached,
\* self.model_cls raises AttributeError.
GenerateFields(t) ==
    LazyStep(t, "generate",
        IF lazy.structs[lazy.mine[t]].hints
        THEN [lazy EXCEPT !.builds = @ + 1, !.made[t] = lazy.builds + 1, !.pc[t] = "store"]
        ELSE [lazy EXCEPT !.pc[t] = "raised"])

\* field_map: `self._get_fields_cache = generated_fields`, and return.
FieldMapStore(t) ==
    LazyStep(t, "store",
        FieldMapReturn([lazy EXCEPT !.structs[lazy.mine[t]].cache = lazy.made[t]],
                       t, lazy.made[t]))

\* lazy_setup_api returns and LazyClassAttr.__get__ does
\* setattr(class_, self.name, result); the caller then reads
\* api.structure.field_map.
LazyPublish(t) ==
    LazyStep(t, "publish",
        [lazy EXCEPT !.api = lazy.mine[t], !.inner[t] = FALSE, !.pc[t] = "field_map"])

InitLazy == InitWith(<< NewObj("AModel") >>, FALSE)

NextLazy ==
    \/ \E t \in Threads : LazyGet(t)
    \/ \E t \in Threads : LazySetupApi(t)
    \/ \E t \in Threads : ConfigureForModelType(t)
    \/ \E t \in Threads : FieldMapRead(t)
    \/ \E t \in Threads : GenerateFields(t)
    \/ \E t \in Threads : FieldMapStore(t)
    \/ \E t \in Threads : LazyPublish(t)

SpecLazy == InitLazy /\ [][NextLazy]_vars

\* One instance of a class with two plain fields, a_field including b_field.
Init == InitWith(<< NewObj("AModel") >>, FALSE)

Next ==
    \/ \E r \in DOMAIN heap : \E name \in AttrNames(heap[r].cls) :
         \E value \in AttrValues(heap, heap[r].cls, name) : Assign(r, name, value)
    \/ \E r \in DOMAIN heap : \E name \in AttrNames(heap[r].cls) :
         \E answer \in {"nothing", "found"} : Read(r, name, answer)
    \/ \E r \in DOMAIN heap : \E d \in Docs(heap[r].cls) : Import(r, d)
    \/ \E r \in DOMAIN heap : \E only \in BOOLEAN : Export(r, only)
    \/ \E r \in DOMAIN heap : Forget(r)

Spec == Init /\ [][Next]_vars

\* One instance of a class with two plain fields, its imports recorded.
InitHist == InitWith(<< NewObj("JModel") >>, TRUE)

NextHist ==
    \/ \E name \in AttrNames(heap[1].cls) :
         \E value \in AttrValues(heap, heap[1].cls, name) : Assign(1, name, value)
    \/ \E d \in Docs(heap[1].cls) : Import(1, d)
    \/ Forget(1)

SpecHist == InitHist /\ [][NextHist]_vars

\* One instance of a class with a relationship to a class that has an id field.
InitRel == InitWith(<< NewObj("RParent") >>, FALSE)

NextRel ==
    \/ Construct("RChild")
    \/ \E r \in DOMAIN heap : \E name \in AttrNames(heap[r].cls) :
         \E value \in AttrValues(heap, heap[r].cls, name) : Assign(r, name, value)
    \/ \E r \in DOMAIN heap : \E name \in AttrNames(heap[r].cls) :
         \E answer \in {"nothing", "found"} : Read(r, name, answer)
    \/ \E d \in Docs(heap[1].cls) : Import(1, d)

SpecRel == InitRel /\ [][NextRel]_vars

\* What a class declares for the options of the field: option -> value
FieldDecls ==
    UNION {[ns -> {BoolV(TRUE), StrV("custom")}] : ns \in SUBSET FieldOptions}

\* cls.api.structure.field_map, the first access
AccessFieldMap(cls) ==
    /\ cls \notin DOMAIN classes.flds.fields
    /\ classes' = [classes EXCEPT !.flds = FieldMap(@, cls)]
    /\ op' = Op("field_map", 0, cls, None, FALSE)
    /\ UNCHANGED <<heap, ret, raised, fetches, hist, client, response, ctx, lazy, query>>

\* A class hierarchy whose classes declare the options of one field or leave
\* them out; the field maps are generated in any order.
InitFld ==
    \E decl \in [FieldClasses -> FieldDecls] :
        /\ \A cls \in FieldClasses :
              /\ "read_only" \in DOMAIN decl[cls] => decl[cls]["read_only"] = BoolV(TRUE)
              /\ "converter" \in DOMAIN decl[cls] => decl[cls]["converter"] = StrV("custom")
        /\ InitDeclared(<< NewObj("AModel") >>, FALSE, FALSE,
                        [NoClasses EXCEPT !.flds.decl = decl])

NextFld == \E cls \in FieldClasses : AccessFieldMap(cls)

SpecFld == InitFld /\ [][NextFld]_vars

\* The field errors a ResponseState is given: fields, codes, the other data
\* of a message, and the most errors kept for one field
ErrorFields == {"my_field", "my_field_other"}
ErrorCodes == {StrV("some-code"), StrV("some-other-code")}
ErrorOthers ==
    {None, DictV([k \in {"code"} |-> StrV("some-other-code")]),
     DictV([k \in {"message"} |-> StrV("bad")])}
MaxErrors == 2

\* A step of the ResponseState
RespStep(o, v, s) ==
    /\ op' = o
    /\ ret' = v
    /\ response' = s
    /\ UNCHANGED <<heap, raised, fetches, hist, client, classes, ctx, lazy, query>>

AddFieldError(field, code, other) ==
    /\ Len(Get(OrEmpty(response.field_errors), field, << >>)) < MaxErrors
    /\ RespStep(Op("add_field_error", 0, field, code, FALSE), None,
                AddFieldErrorTo(response, field, code, other))

HasFieldError(field, code) ==
    RespStep(Op("has_field_error", 0, field, code, FALSE),
             BoolV(HasFieldErrorIn(response, field, code)), response)

MarkForNoErrors ==
    RespStep(Op("mark_for_no_errors", 0, "", None, FALSE), None,
             MarkedForNoErrors(response))

Reset(for_retry) ==
    RespStep(Op("reset", 0, "", BoolV(for_retry), FALSE), None,
             ResetState(response, for_retry))

RetrySend(retry_value) ==
    RespStep(Op("retry_send", 0, "", retry_value, FALSE), None,
             RetrySent(response, retry_value))

\* One ResponseState that is given field errors, asked for them and reset.
InitResp == InitWith(<< NewObj("RChild") >>, FALSE)

NextResp ==
    \/ \E field \in ErrorFields, code \in ErrorCodes, other \in ErrorOthers :
          AddFieldError(field, code, other)
    \/ \E field \in ErrorFields, code \in ErrorCodes : HasFieldError(field, code)
    \/ MarkForNoErrors
    \/ \E for_retry \in BOOLEAN : Reset(for_retry)
    \/ \E retry_value \in {BoolV(TRUE), BoolV(FALSE)} : RetrySend(retry_value)

SpecResp == InitResp /\ [][NextResp]_vars

\* What an api class declares as default_converters: type -> converter
ConverterDecls ==
    UNION {[ts -> {"c1", "c2"}] : ts \in SUBSET {"none", "str"}}

\* `cls.api`, the first access: lazy_setup_api has the api of the model class
\* cls inherits from set up first
AccessApi(cls) ==
    /\ cls \notin DOMAIN classes.conv.built
    /\ ModelBase(cls) # "" => ModelBase(cls) \in DOMAIN classes.conv.built
    /\ classes' = [classes EXCEPT !.conv.built = Put(@, cls, BuiltConverters(classes.conv, cls))]
    /\ op' = Op("api", 0, cls, None, FALSE)
    /\ UNCHANGED <<heap, ret, raised, fetches, hist, client, response, ctx, lazy, query>>

\* Api classes that declare default_converters or leave them out, and model
\* classes that use them.
InitConv ==
    \E apis \in SUBSET {"MyFirstApi", "MySecondApi"} : \E decl \in [apis -> ConverterDecls] :
        InitDeclared(<< NewObj("AModel") >>, FALSE, FALSE,
                     [NoClasses EXCEPT !.conv.decl = decl])

NextConv == \E cls \in ModelClasses : AccessApi(cls)

SpecConv == InitConv /\ [][NextConv]_vars

\* The depth of nested `with ApiOptionsGroup():` blocks
MaxDepth == 3

\* Values a caller assigns to an option
OptionInputs(name) ==
    IF name = "cache_by_id" THEN {BoolV(TRUE), BoolV(FALSE)} ELSE {StrV("x")}

\* An operation on the options: the other parts of the state are unchanged
OptStep(o, v, groups) ==
    /\ op' = o
    /\ ret' = v
    /\ ctx' = [ctx EXCEPT !.options = groups]
    /\ UNCHANGED <<heap, raised, fetches, hist, client, classes, response, lazy, query>>

\* `with ApiOptionsGroup():`, entering
EnterGroup ==
    /\ Len(ctx.options) < MaxDepth
    /\ OptStep(Op("enter", 0, "", None, FALSE), None, Append(ctx.options, NewGroup))

\* `with ApiOptionsGroup():`, leaving: the group is thrown away
ExitGroup ==
    /\ Len(ctx.options) > 1
    /\ OptStep(Op("exit", 0, "", DictV(ctx.options[Len(ctx.options)].d), FALSE), None,
               SubSeq(ctx.options, 1, Len(ctx.options) - 1))

\* `Model.api.options.<name> = value`
SetOption(name, value) ==
    OptStep(Op("set_option", 0, name, value, FALSE), None,
            SetOptionIn(ctx.options, name, value))

\* `Model.api.options.<name>`
GetOption(name) ==
    OptStep(Op("get_option", 0, name, None, FALSE),
            GetOptionIn(OptionsCreated(ctx.options), name), OptionsCreated(ctx.options))

\* `Model.api.option_for_name(name)`
ReadOptionForName(name) ==
    OptStep(Op("option_for_name", 0, name, None, FALSE),
            OptionForName(ctx.options, name),
            IF OptionValues(ctx.options, name, Len(ctx.options)) = << >>
            THEN OptionsCreated(ctx.options) ELSE ctx.options)

\* A remote model class whose options are set and read inside and outside
\* of nested option groups.
InitOpt == InitWith(<< NewObj("RChild") >>, FALSE)

NextOpt ==
    \/ EnterGroup
    \/ ExitGroup
    \/ \E name \in OptionNames : \E value \in OptionInputs(name) : SetOption(name, value)
    \/ \E name \in OptionNames : GetOption(name)
    \/ \E name \in OptionNames : ReadOptionForName(name)

SpecOpt == InitOpt /\ [][NextOpt]_vars

\* The ids the server may hold
MaxId == 2

\* Objects of a remote class in a program that has enabled the
\* WeakCachePool: they are imported, and fetched by lists of ids.
InitGet == InitPooled(<< NewObj("RChild") >>, FALSE, TRUE)

NextGet ==
    \/ \E r \in DOMAIN heap : \E i \in 1 .. MaxId :
         Import(r, [k \in {"id"} |-> IntV(i)])
    \/ \E r \in DOMAIN heap : \E value \in AttrValues(heap, heap[r].cls, "id") :
         Assign(r, "id", value)
    \/ \E ids \in SUBSET (1 .. MaxId) : \E found \in SUBSET ids :
         GetViaIds("RChild", ids, found)

SpecGet == InitGet /\ [][NextGet]_vars

\* An object of a remote class and the objects the client builds: they are
\* imported and fetched by id, with the option cache_by_id set and unset;
\* the WeakCachePool is disabled.
InitCache == InitWith(<< NewObj("RChild") >>, FALSE)

NextCache ==
    \/ \E i \in 0 .. MaxId : Import(1, [k \in {"id"} |-> IntV(i)])
    \/ \E i \in 0 .. MaxId : \E answer \in {"nothing", "found"} :
          GetViaIdOne("RChild", IntV(i), answer)
    \/ ClientClear
    \/ \E value \in OptionInputs("cache_by_id") : SetOption("cache_by_id", value)

SpecCache == InitCache /\ [][NextCache]_vars

\* One instance of a class with a relationship to a class that has an id
\* field, assigned, read, imported and exported.
InitExp == InitWith(<< NewObj("RParent") >>, FALSE)

NextExp ==
    \/ Construct("RChild")
    \/ \E r \in DOMAIN heap : \E name \in AttrNames(heap[r].cls) :
         \E value \in AttrValues(heap, heap[r].cls, name) : Assign(r, name, value)
    \/ \E name \in AttrNames(heap[1].cls) : Read(1, name, "found")
    \/ \E d \in Docs(heap[1].cls) : Import(1, d)
    \/ \E r \in DOMAIN heap : \E only \in BOOLEAN : Export(r, only)

SpecExp == InitExp /\ [][NextExp]_vars

\* The types of the objects kept in the pool
PoolTypes == {"RChild", "RModel"}

\* The defaults a get of the pool is given
PoolDefaults == {None, StrV("missing")}

\* A step of the WeakCachePool
PoolStep(o, v, c) == DoneWith(Res(heap, v, "none", 0), o, hist, c)

SetEnabled(value) ==
    PoolStep(Op("enabled", 0, "", BoolV(value), FALSE), None, EnabledSet(client, value))

\* `with pool:` entered and left; __enter__ and __exit__ clear the caches
PoolEnter ==
    /\ op.name # "enter"
    /\ PoolStep(Op("enter", 0, "", None, FALSE), None, ClearCaches(client))

PoolExit ==
    /\ op.name # "exit"
    /\ PoolStep(Op("exit", 0, "", None, FALSE), None, ClearCaches(client))

PoolSetKey(i, r) ==
    PoolStep(Op("set", r, heap[r].cls, IntV(i), FALSE), None,
             PoolSet(client, IdCacheKey(heap[r].cls, IntV(i)), r))

PoolGetKey(cls, i, default) ==
    PoolStep(Op("get", 0, cls, IntV(i), FALSE),
             PoolGet(client, IdCacheKey(cls, IntV(i)), default), client)

PoolRemoveKey(cls, i) ==
    PoolStep(Op("remove", 0, cls, IntV(i), FALSE), None,
             PoolRemove(client, IdCacheKey(cls, IntV(i))))

\* A WeakCachePool that is enabled and disabled, entered and left as a
\* context, and asked to keep and to find objects.
InitPool ==
    \E enabled \in BOOLEAN :
        InitPooled(<< NewObj("RChild"), NewObj("RModel") >>, FALSE, enabled)

NextPool ==
    \/ \E value \in BOOLEAN : SetEnabled(value)
    \/ PoolEnter
    \/ PoolExit
    \/ \E i \in 1 .. MaxId : \E r \in DOMAIN heap : PoolSetKey(i, r)
    \/ \E cls \in PoolTypes : \E i \in 1 .. MaxId : \E default \in PoolDefaults :
          PoolGetKey(cls, i, default)
    \/ \E cls \in PoolTypes : \E i \in 1 .. MaxId : PoolRemoveKey(cls, i)

SpecPool == InitPool /\ [][NextPool]_vars

\* Classes whose field declarations are checked when their field map is
\* generated: a relationship with its own json_path, a field of an
\* unsupported type.
InitCfg == InitWith(<< NewObj("RChild") >>, FALSE)

NextCfg ==
    \/ \E cls \in {"PParent", "UModel"} : ConstructChecked(cls)
    \/ \E r \in DOMAIN heap : \E name \in AttrNames(heap[r].cls) :
         \E value \in AttrValues(heap, heap[r].cls, name) : Assign(r, name, value)
    \/ \E r \in DOMAIN heap : \E d \in Docs(heap[r].cls) : r # 1 /\ Import(r, d)
    \/ \E r \in DOMAIN heap : \E only \in BOOLEAN : r # 1 /\ Export(r, only)

SpecCfg == InitCfg /\ [][NextCfg]_vars

\* One instance of a class with a relationship to a class whose id is an
\* int; ids are imported and assigned as ints and as text.
InitRelId == InitWith(<< NewObj("IParent") >>, FALSE)

NextRelId ==
    \/ Construct("RChild")
    \/ \E r \in DOMAIN heap : \E name \in AttrNames(heap[r].cls) :
         \E value \in AttrValues(heap, heap[r].cls, name) : Assign(r, name, value)
    \/ \E d \in Docs(heap[1].cls) : Import(1, d)

SpecRelId == InitRelId /\ [][NextRelId]_vars

\* One instance of a class with a relationship to a class without an id
\* field: the related object is embedded in the parent's document.
InitEmb == InitWith(<< NewObj("JParent") >>, FALSE)

NextEmb ==
    \/ Construct("JModel")
    \/ \E r \in DOMAIN heap : \E name \in AttrNames(heap[r].cls) :
         \E value \in AttrValues(heap, heap[r].cls, name) : Assign(r, name, value)
    \/ \E d \in Docs(heap[1].cls) : Import(1, d)
    \/ Export(1, TRUE)
    \/ \E r \in DOMAIN heap \ {1} : Forget(r)

SpecEmb == InitEmb /\ [][NextEmb]_vars

\* One instance of a class with nested json paths, a read-only field, a
\* default and a datetime field.
InitTrip == InitWith(<< NewObj("TestModel") >>, FALSE)

NextTrip ==
    \/ \E name \in AttrNames(heap[1].cls) :
         \E value \in AttrValues(heap, heap[1].cls, name) : Assign(1, name, value)
    \/ \E d \in Docs(heap[1].cls) : Import(1, d)
    \/ RoundTrip(1)

SpecTrip == InitTrip /\ [][NextTrip]_vars

\* One instance of a remote class: with include_with_fields and a read-only
\* field, or with a read-only id.
InitRem ==
    \/ InitWith(<< NewObj("RModel") >>, FALSE)
    \/ InitWith(<< NewObj("RoModel") >>, FALSE)

NextRem ==
    \/ \E name \in AttrNames(heap[1].cls) :
         \E value \in AttrValues(heap, heap[1].cls, name) : Assign(1, name, value)
    \/ \E d \in Docs(heap[1].cls) : Import(1, d)
    \/ \E only \in BOOLEAN : Export(1, only)

SpecRem == InitRem /\ [][NextRem]_vars

\* One instance of a remote class with an embedded object.
InitRemEmb == InitWith(<< NewObj("REParent") >>, FALSE)

NextRemEmb ==
    \/ \E r \in DOMAIN heap : \E name \in AttrNames(heap[r].cls) :
         \E value \in AttrValues(heap, heap[r].cls, name) : Assign(r, name, value)
    \/ \E d \in Docs(heap[1].cls) : Import(1, d)
    \/ Export(1, TRUE)

SpecRemEmb == InitRemEmb /\ [][NextRemEmb]_vars

\* Two instances of a class whose field has a callable default, list.
InitDef == InitWith(<< NewObj("DModel"), NewObj("DModel") >>, FALSE)

NextDef ==
    \/ \E r \in Instances(heap, "DModel") : Read(r.r, "field_list", "nothing")
    \/ \E r \in Instances(heap, "DModel") : Assign(r.r, "field_list", None)
    \/ \E r \in Instances(heap, "DModel") : AppendTo(r.r, "field_list")

SpecDef == InitDef /\ [][NextDef]_vars

\* Most values max_query_by_id takes, most key dicts in a list, most keys of
\* a key dict and most queries counted
MaxQuery == 3
MaxKeyDicts == 4
MaxKeys == 2
MaxIssued == 3

\* A step of get_via_id
QueryStep(o, q) ==
    /\ op' = o
    /\ query' = q
    /\ UNCHANGED <<heap, ret, raised, fetches, hist, client, classes, response, ctx, lazy>>

\* cls.api.get_via_id(list) is called: singles key dicts of one key and
\* composites key dicts of `keys` keys, on a class with max_query_by_id
GetViaIdStart(max_query_by_id, singles, composites, keys) ==
    /\ query.pc \in {"idle", "done"}
    /\ QueryStep(Op("get_via_id", 0, "RChild", IntV(singles + composites), FALSE),
                 QueryStarted(max_query_by_id, QueryGroups(singles, composites, keys)))

\* One iteration of `while len(obj_group) > 0`
GetViaIdLoop ==
    /\ query.pc = "loop"
    /\ QueryStep(Op("query", 0, "RChild", None, FALSE),
                 QueryIssued(QueryPopped(query), MaxIssued))

\* Lists of key dicts given to get_via_id of a class with some max_query_by_id
InitQuery == InitWith(<< NewObj("RChild") >>, FALSE)

NextQuery ==
    \/ \E m \in 1 .. MaxQuery : \E s \in 0 .. MaxKeyDicts : \E c \in 0 .. MaxKeyDicts - s :
         \E k \in 2 .. MaxKeys : GetViaIdStart(m, s, c, k)
    \/ GetViaIdLoop

SpecQuery == InitQuery /\ [][NextQuery]_vars

\* The loop of a call that is under way goes on
SpecQueryFair == SpecQuery /\ WF_vars(GetViaIdLoop)

\* Model-instance defaults: OModel.inner has the EModel object 1 as its
\* default; two OModel instances read it, and the copies are changed.
InitCopy == InitWith(<< NewObj("EModel"), NewObj("OModel"), NewObj("OModel") >>, FALSE)

\* The copies of the declared default: every EModel but the declared one
Copies(h) == Instances(h, "EModel") \ {ObjV(1)}

NextCopy ==
    \/ \E r \in Instances(heap, "OModel") : Read(r.r, "inner", "nothing")
    \/ \E r \in Instances(heap, "OModel") : Assign(r.r, "inner", None)
    \/ \E r \in Copies(heap) : AppendTo(r.r, "field_list")
    \/ \E r \in Copies(heap) : Assign(r.r, "field_str", StrV("x"))

SpecCopy == InitCopy /\ [][NextCopy]_vars

\* Getter and setter overrides: a GModel, whose g_field and child have a
\* getter only, and an RChild to assign to it.
InitProp == InitWith(<< NewObj("GModel"), NewObj("RChild") >>, FALSE)

\* The attributes the getters of cls read that no setter writes
StorageNames(cls) ==
    {GetField(cls, f).fget : f \in {x \in FieldNames(cls) : GetField(cls, x).fget # "none"}}
        \ {GetField(cls, f).fset : f \in FieldNames(cls)}

NextProp ==
    \/ \E r \in DOMAIN heap : \E name \in AttrNames(heap[r].cls) \cup StorageNames(heap[r].cls) :
         \E value \in AttrValues(heap, heap[r].cls, name) : Assign(r, name, value)
    \/ \E r \in DOMAIN heap : \E name \in AttrNames(heap[r].cls) : Read(r, name, "nothing")

SpecProp == InitProp /\ [][NextProp]_vars

\* One instance with two plain fields, whose fields are changed and changed back.
InitBack == InitWith(<< NewObj("AModel") >>, FALSE)

NextBack ==
    \/ \E name \in AttrNames(heap[1].cls) :
         \E value \in AttrValues(heap, heap[1].cls, name) : Assign(1, name, value)
    \/ \E d \in Docs(heap[1].cls) : Import(1, d)
    \/ \E name \in AttrNames(heap[1].cls) :
         \E value, back \in AttrValues(heap, heap[1].cls, name) \cup KeyValues(heap[1].cls, name) :
            Toggle(1, name, value, back)

SpecBack == InitBack /\ [][NextBack]_vars

\* One instance of a class whose two fields sit under one nested json object.
InitPath == InitWith(<< NewObj("PathModel") >>, FALSE)

NextPath ==
    \/ \E name \in AttrNames(heap[1].cls) :
         \E value \in AttrValues(heap, heap[1].cls, name) : Assign(1, name, value)
    \/ \E d \in Docs(heap[1].cls) : Import(1, d)

SpecPath == InitPath /\ [][NextPath]_vars

---------------------------------------------------------------------------
\* Properties of the changes-only export (Spec)

\* The object embedded in instance 1, if any
Embedded == GetChildWithoutLazyLookup(heap, 1, "embedded", FALSE)

\* The keys of an export: none when the export is None
KeysOf(export) == IF export = None THEN {} ELSE DOMAIN export.d

\* The fields that hold a value on instance r
Holding(r) == {n \in DOMAIN heap[r].attrs : heap[r].attrs[n] # None}

\* The JSON form of attribute name of instance r in heap h
Exported(h, r, name) ==
    LET v == Convert("to_json", GetField(h[r].cls, name), h[r].attrs[name])
    IN IF v = Null THEN None ELSE v

\* The last operation was an update_from_json on instance 1 that returned
JustImported ==
    op.name = "update_from_json" /\ op.r = 1 /\ raised = "none"

C2_ChangesOnlyIsFullWithoutLast ==
    \A r \in DOMAIN heap :
        (heap[r].last = None /\ ~HasIdField(heap[r].cls))
            => Json(heap, r, TRUE) = Json(heap, r, FALSE)

\* An instance that has forgotten its document exports both of its fields.
C2_Witness ==
    /\ op.name = "forget"
    /\ heap[1].last = None
    /\ Json(heap, 1, TRUE).ret = DictV([k \in {"a_field", "b_field"} |->
                                         IF k = "a_field" THEN StrV("x") ELSE IntV(1)])

\* The step: A and B were just imported together and B is assigned a
\* different value
AssignsIncluded(A, B) ==
    /\ JustImported
    /\ {A, B} \subseteq DOMAIN op.arg.d
    /\ {A, B} \subseteq DOMAIN heap[1].attrs
    /\ op'.name = "setattr" /\ op'.r = 1 /\ op'.field = B /\ raised' = "none"
    /\ heap'[1].attrs[B] # heap[1].attrs[B]

\* The changes-only export has A with its imported value and B with its new value
ExportsBoth(A, B) ==
    LET e == Json(heap', 1, TRUE)
    IN /\ e.raised = "none" /\ e.ret # None
       /\ {A, B} \subseteq DOMAIN e.ret.d
       /\ e.ret.d[A] = op.arg.d[A]
       /\ e.ret.d[B] = Exported(heap', 1, B)

C7_NullRejected ==
    [][(/\ op'.name = "setattr"
        /\ op'.arg = Null
        /\ FieldExists(heap[op'.r].cls, op'.field)
        /\ ~GetField(heap[op'.r].cls, op'.field).nullable)
       => (raised' # "none" /\ heap'[op'.r].attrs = heap[op'.r].attrs)]_vars

---------------------------------------------------------------------------
\* The round trip (SpecTrip)

\* The last operation was a round trip of instance 1
Tripped == op.name = "round_trip" /\ op.r = 1

\* The value of field f of instance 1
ValueOf(f) == GetAttr(heap, 1, f, "nothing").ret

\* C3 as stated: a fresh instance built from the full export of m has, for
\* every field that is not a relationship and not read-only, a value equal
\* to that of m, nested json paths included.
C3_RoundTrip ==
    Tripped =>
        /\ raised = "none"
        /\ \A f \in TripFields(heap[1].cls) : PyEq(ret.d[f], ValueOf(f))

\* C3 amended: the values are equal for every such field except one that
\* holds a naive datetime; that one comes back as a timezone-aware datetime
\* in UTC, which is not equal to the naive one.
C3_RoundTripAware ==
    Tripped =>
        /\ raised = "none"
        /\ \A f \in TripFields(heap[1].cls) :
              IF ValueOf(f).t = "datetime" /\ ValueOf(f).tz = "naive"
              THEN ret.d[f].t = "datetime" /\ ret.d[f].tz = "utc" /\ ~PyEq(ret.d[f], ValueOf(f))
              ELSE PyEq(ret.d[f], ValueOf(f))

\* A round trip of an instance with both nested fields, the read-only field
\* and an aware datetime in another zone set.
C3_Witness ==
    /\ Tripped
    /\ raised = "none"
    /\ ValueOf("json_path_field") = StrV("x")
    /\ ValueOf("count") = IntV(1)
    /\ ValueOf("ro_field") = StrV("x")
    /\ ValueOf("a_datetime_field") = DtV(2, "other")
    /\ ret.d["json_path_field"] = StrV("x")
    /\ ret.d["count"] = IntV(1)
    /\ ret.d["a_datetime_field"] = DtV(2, "utc")

---------------------------------------------------------------------------
\* Changing a field and changing it back (SpecBack)

\* The next operation assigns a field of instance 1 another value and then
\* one equal to the imported value, and neither assignment raises
ToggledBack == op'.name = "toggle" /\ op'.r = 1 /\ raised' = "none"

\* C12: assigning a field that holds its imported value a different value and
\* then a value equal to the imported one leaves the changes-only export as
\* it was, and None right after an import of both fields (no int from ''):
\* the export depends on the field values and the last-known document, not
\* on the assignments made.
C12_BackToImportedNoChanges ==
    [][ToggledBack =>
         /\ Json(heap', 1, TRUE) = Json(heap, 1, TRUE)
         /\ (/\ JustImported
             /\ DOMAIN op.arg.d = {"a_field", "b_field"}
             /\ Holding(1) = DOMAIN op.arg.d
             /\ op.arg.d["b_field"] # StrV(""))
               => Json(heap', 1, TRUE).ret = None]_vars

\* Both fields were imported, the int field from the text '1'; it was
\* assigned 2 and then '1' again, and nothing is reported.
C12_Witness ==
    /\ op.name = "toggle" /\ op.field = "b_field" /\ op.arg = StrV("1")
    /\ raised = "none"
    /\ heap[1].last = DictV([k \in {"a_field", "b_field"} |->
                               IF k = "a_field" THEN StrV("x") ELSE StrV("1")])
    /\ heap[1].attrs["b_field"] = IntV(1)
    /\ Json(heap, 1, TRUE).ret = None

---------------------------------------------------------------------------
\* Exports of remote models (SpecRem, SpecRemEmb)

\* The top-level keys under which the read-only fields of cls would be exported
ReadOnlyKeys(cls) ==
    {GetField(cls, f).json_path[1] : f \in {x \in FieldNames(cls) : GetField(cls, x).read_only}}

\* C14: no export, full or changes-only, has a value for a read-only field.
C14_ReadOnlyNeverExported ==
    \A only \in BOOLEAN :
        KeysOf(ApiJson(heap, 1, only).ret) \cap ReadOnlyKeys(heap[1].cls) = {}

\* The full export of the object embedded in instance 1, None if there is none
EmbeddedFull ==
    IF Embedded.t = "obj" THEN Json(heap, Embedded.r, FALSE).ret ELSE None

\* C15: a remote model whose id is None exports everything when asked for
\* its changes only, the embedded object in full, also after an import.
C15_FullExportWithoutId ==
    IdOf(heap, ObjV(1)) = None =>
        /\ ApiJson(heap, 1, TRUE) = ApiJson(heap, 1, FALSE)
        /\ ApiJson(heap, 1, TRUE).ret # None
        /\ Holding(1) \ {"embedded"} \subseteq KeysOf(ApiJson(heap, 1, TRUE).ret)
        /\ Embedded.t = "obj" => ApiJson(heap, 1, TRUE).ret.d["embedded"] = EmbeddedFull

\* Parent and embedded object were imported with an id, the id was set to
\* None, and the changes-only export that followed has every field.
C15_Witness ==
    /\ op.name = "json" /\ op.only
    /\ heap[1].last # None /\ "id" \in DOMAIN heap[1].last.d
    /\ IdOf(heap, ObjV(1)) = None
    /\ Embedded.t = "obj"
    /\ heap[Embedded.r].last # None
    /\ ret = DictV([k \in {"embedded", "parent_field"} |->
                      IF k = "parent_field" THEN StrV("x") ELSE heap[1].last.d["embedded"]])

\* Instance 1 is an RModel with an id and a last-known document
IdAndLastKnown ==
    /\ heap[1].cls = "RModel"
    /\ IdOf(heap, ObjV(1)) # None
    /\ heap[1].last # None

\* The id of instance 1 is the one its last-known document was imported with
IdAsImported ==
    /\ heap[1].last # None
    /\ "id" \in DOMAIN heap[1].last.d
    /\ heap[1].last.d["id"] \in {IdOf(heap, ObjV(1)), StrV(StrOfInt(IdOf(heap, ObjV(1)).n))}

\* The fields other than id that BaseApi.json would send as changed
ChangedFields == KeysOf(Json(heap, 1, TRUE).ret) \ {"id"}

\* C16: with an id and a last-known document, the changes-only export is
\* None when only an unchanged id would be sent, otherwise it has 'id' with
\* the current id and the changed fields; it is never an unchanged id alone.
C16_ChangesOnlyWithId ==
    IdAndLastKnown =>
        IF ChangedFields = {} /\ IdAsImported
        THEN ApiJson(heap, 1, TRUE).ret = None
        ELSE /\ ApiJson(heap, 1, TRUE).ret # None
             /\ Get(ApiJson(heap, 1, TRUE).ret.d, "id", None) = IdOf(heap, ObjV(1))
             /\ ChangedFields \subseteq KeysOf(ApiJson(heap, 1, TRUE).ret)

\* An imported RModel had a_field changed, and its changes-only export is
\* the changed field with the unchanged id.
C16_Witness ==
    /\ op.name = "json" /\ op.only
    /\ IdAndLastKnown /\ IdAsImported
    /\ ret = DictV([k \in {"a_field", "id"} |-> IF k = "id" THEN IntV(1) ELSE StrV("y")])

\* C17: when several threads make the first access to a model class, the
\* field map is generated once, every thread gets a completed map, and all
\* threads get the same one.
C17_FieldMapBuiltOnce ==
    /\ lazy.builds <= 1
    /\ \A t \in Threads : lazy.pc[t] # "raised"
    /\ \A t, u \in Threads :
          lazy.pc[t] = "done" /\ lazy.pc[u] = "done" => lazy.seen[t] = lazy.seen[u]

\* C19: the related id held for a relationship is None, Null or a value of
\* the declared type of the related class's id field, however it was given.
C19_RelatedIdHasDeclaredType ==
    GetRelatedFieldId(heap, 1, "child") \in {None, Null}
        \/ GetRelatedFieldId(heap, 1, "child").t = GetField("RChild", "id").type_hint

\* C18: no class in use has, in its field map, a relationship field whose
\* json_path differs from its name: generating the fields rejects it.
C18_NoRelatedFieldWithJsonPath ==
    \A r \in DOMAIN heap : \A f \in FieldNames(heap[r].cls) :
        GetField(heap[r].cls, f).related_type # "none"
            => GetField(heap[r].cls, f).json_path = <<f>>

\* The ids of the objects in the list the last get_via_id returned
ReturnedIds ==
    IF ret = None THEN {} ELSE {IdOf(heap, ObjV(r)) : r \in ret.items}

\* C20: get_via_id with a list returns an object for every id found in the
\* cache or by the client, and asks the client for no id it found in the cache.
C20_ListHasCachedAndFetched ==
    op.name = "get_via_id" =>
        /\ \A i \in client.hits : CacheGet(client, op.field, IntV(i)) \in ret.items
        /\ \A i \in client.asked :
              CacheGet(client, op.field, IntV(i)) # 0 => IntV(i) \in ReturnedIds
        /\ client.asked \cap client.hits = {}

\* The options a caller sees through Model.api.options
OptionsSeen(groups) == [name \in OptionNames |-> GetOptionIn(groups, name)]

\* The enclosing groups, innermost last, that have set the option
SetIn(groups, name) == {i \in 1 .. Len(groups) : name \in DOMAIN groups[i].d}

\* C21: what is assigned through Model.api.options inside an option group
\* is in effect only inside it: while a group is active no group around it
\* changes, and leaving it gives back the options that Model.api.options
\* showed when it was entered; option_for_name returns the value set in the
\* innermost group that has set the option.
C21_OptionsScopedToGroup ==
    /\ [][/\ Len(ctx'.options) >= Len(ctx.options) =>
               \A i \in 1 .. Len(ctx.options) - 1 :
                   OptionsSeen(SubSeq(ctx'.options, 1, i)) = OptionsSeen(SubSeq(ctx.options, 1, i))
          /\ Len(ctx'.options) < Len(ctx.options) =>
               OptionsSeen(ctx'.options)
                   = OptionsSeen(SubSeq(ctx.options, 1, Len(ctx.options) - 1))]_vars
    /\ [](\A name \in OptionNames :
            SetIn(ctx.options, name) # {} =>
                OptionForName(ctx.options, name)
                    = ctx.options[CHOOSE i \in SetIn(ctx.options, name) :
                                     \A j \in SetIn(ctx.options, name) : j <= i].d[name])

\* A group in which cache_by_id was set to False has been left, and
\* Model.api.options.cache_by_id is True again, as set before the group.
C21_Witness ==
    /\ op.name = "exit"
    /\ Get(op.arg.d, "cache_by_id", None) = BoolV(FALSE)
    /\ GetOptionIn(ctx.options, "cache_by_id") = BoolV(TRUE)

\* The converter that three layers give a type, the later layer first
Layered(t, first, second, third) ==
    IF t \in DOMAIN third THEN third[t]
    ELSE IF t \in DOMAIN second THEN second[t]
    ELSE first[t]

\* The converters of the api of the model class cls inherits from
ParentConverters(cls) ==
    IF ModelBase(cls) = "" THEN EmptyDoc ELSE classes.conv.built[ModelBase(cls)]

\* The api of cls has, for each type, the converter of the last of
\* DEFAULT_CONVERTERS, the parent model's api and own that has the type
MergedFrom(cls, own) ==
    /\ DOMAIN classes.conv.built[cls]
          = DOMAIN DefaultConverters \cup DOMAIN ParentConverters(cls) \cup DOMAIN own
    /\ \A t \in DOMAIN classes.conv.built[cls] :
          classes.conv.built[cls][t]
              = Layered(t, DefaultConverters, ParentConverters(cls), own)

\* C22: the default_converters of a model class's api are the merge, the
\* later overriding the earlier for the same type, of DEFAULT_CONVERTERS, the
\* converters of the api of the model class it directly inherits from, and
\* the default_converters declared on its own api class.
C22_MergeOfThreeDeclared ==
    \A cls \in DOMAIN classes.conv.built :
        MergedFrom(cls, Get(classes.conv.decl, ModelApiCls(cls), EmptyDoc))

\* C23: after add_field_error(field, code) had_error is True and
\* has_field_error(field, code) is True; has_field_error is False for every
\* pair never added (a new ResponseState has none, and a pair is found only
\* from the add_field_error that added it on); after reset() or
\* mark_for_no_errors() it is False for every pair until an error is added.
C23_FieldErrors ==
    /\ [](op.name = "add_field_error" =>
            /\ response.had_error = BoolV(TRUE)
            /\ HasFieldErrorIn(response, op.field, op.arg))
    /\ [](op.name = "init" =>
            \A field \in ErrorFields, code \in ErrorCodes :
                ~HasFieldErrorIn(response, field, code))
    /\ [][\A field \in ErrorFields, code \in ErrorCodes :
             HasFieldErrorIn(response', field, code)
               /\ ~HasFieldErrorIn(response, field, code)
             => op' = Op("add_field_error", 0, field, code, FALSE)]_vars
    /\ [](op.name \in {"reset", "mark_for_no_errors"} =>
            \A field \in ErrorFields, code \in ErrorCodes :
                ~HasFieldErrorIn(response, field, code))
    /\ [](op.name = "has_field_error" =>
            ret = BoolV(HasFieldErrorIn(response, op.field, op.arg)))

\* An error added after a reset is found, one added before it is not.
C23_Witness ==
    /\ op.name = "add_field_error"
    /\ response.field_errors = DictV([f \in {"my_field"} |->
                                     << [k \in {"code"} |-> StrV("some-code")] >>])
    /\ response.had_error = BoolV(TRUE)
    /\ HasFieldErrorIn(response, "my_field", StrV("some-code"))
    /\ ~HasFieldErrorIn(response, "my_field", StrV("some-other-code"))
    /\ ~HasFieldErrorIn(response, "my_field_other", StrV("some-code"))

\* The pool finds nothing: every get returns the default it is given
PoolForgot(c) ==
    \A cls \in PoolTypes : \A i \in 1 .. MaxId : \A default \in PoolDefaults :
        PoolGet(c, IdCacheKey(cls, IntV(i)), default) = default

\* C24: WeakCachePool forgets everything whenever `enabled` changes, in
\* either direction, and whenever it is entered or exited as a context: a
\* get for a key set before returns the default until the key is set again.
C24_PoolForgets ==
    /\ [][(op'.name \in {"enter", "exit"} \/ client'.enabled # client.enabled)
             => PoolForgot(client')]_vars
    /\ [][\A cls \in PoolTypes : \A i \in 1 .. MaxId : \A default \in PoolDefaults :
             (/\ PoolGet(client, IdCacheKey(cls, IntV(i)), default) = default
              /\ PoolGet(client', IdCacheKey(cls, IntV(i)), default) # default)
             => op' = Op("set", op'.r, cls, IntV(i), FALSE)]_vars

\* The keys of an export
KeptIn(export) == IF export.ret = None THEN {} ELSE DOMAIN export.ret.d

\* Every field of instance r with include_with_fields whose own value, in the
\* full export, is the last-known one is in the changes-only export exactly
\* when a field it names is
KeptWithNamed(r, full, kept) ==
    \A i \in 1 .. Len(FieldSeq(heap[r].cls)) :
        (/\ FieldSeq(heap[r].cls)[i].include_with_fields # {}
         /\ FieldSeq(heap[r].cls)[i].name \in UnchangedKeys(heap, r, full))
        => (FieldSeq(heap[r].cls)[i].name \in kept
              <=> FieldSeq(heap[r].cls)[i].include_with_fields \cap kept # {})

\* C25: in a changes-only export, a field F whose own value is unchanged and
\* whose include_with_fields is non-empty is kept if and only if at least one
\* field named in F.include_with_fields is itself kept, also when a named
\* field has no value.
C25_KeptIffNamedKept ==
    \A r \in DOMAIN heap :
        (/\ heap[r].cls = "AModel" /\ heap[r].last # None
         /\ Json(heap, r, FALSE).raised = "none"
         /\ Json(heap, r, FALSE).ret # None
         /\ Json(heap, r, TRUE).raised = "none")
        => KeptWithNamed(r, Json(heap, r, FALSE).ret.d, KeptIn(Json(heap, r, TRUE)))

\* What the claim gives option n of the field in cls: the declared value; or
\* the parent's value if the parent's class declared the option; or the value
\* resolved for cls itself
OptionAsClaimed(f, cls, n) ==
    IF n \in DOMAIN f.decl[cls] THEN f.decl[cls][n]
    ELSE IF FieldBase(cls) # "" /\ n \in DOMAIN f.decl[FieldBase(cls)]
    THEN f.fields[FieldBase(cls)].vals[n]
    ELSE AutoResolved(n, FieldTypeHint(cls))

\* C26: when a field's defaults are resolved against its parent field, an
\* option is copied from the parent only if the child left it unset, the
\* parent's value is not Default and the parent's own declarer explicitly set
\* it; a value the parent inherited or that was auto-resolved for the parent
\* is not propagated.
C26_CopiedOnlyIfParentDeclared ==
    \A cls \in DOMAIN classes.flds.fields : \A n \in FieldOptions :
        classes.flds.fields[cls].vals[n] = OptionAsClaimed(classes.flds, cls, n)

\* The explicitly-set options of the field of cls
ExplicitlySet(f, cls) == f.sets[f.fields[cls].set]

\* C27: resolving a child field's defaults does not modify its parent field:
\* the parent's explicitly-set set is the same before and after, and what one
\* subclass declares never changes what a sibling inherits.
C27_ParentFieldUnchanged ==
    /\ [][\A cls \in DOMAIN classes.flds.fields :
             ExplicitlySet(classes'.flds, cls) = ExplicitlySet(classes.flds, cls)]_vars
    /\ [](\A cls \in DOMAIN classes.flds.fields :
             classes.flds.fields[cls].vals
               = FieldMap([classes.flds EXCEPT !.sets = << >>, !.fields = EmptyDoc],
                          cls).fields[cls].vals)

\* The related object that attribute name of instance r holds in heap h, or
\* None when it holds none
Materialized(h, r, name) ==
    IF Get(h[r].attrs, name, None).t = "obj" THEN h[r].attrs[name] ELSE None

\* The step is `{name}_id = Null` on an instance whose attribute name holds a
\* related object
NullsRelatedId(r, name) ==
    /\ op' = Op("setattr", r, IdNameOf(name), Null, FALSE)
    /\ Materialized(heap, r, name) # None

\* C28: set_related_field_id(name, Null) while the attribute holds a related
\* object sets the attribute to Null only if that object has an id other
\* than None; an object whose id is None is left in place; in both cases no
\* pending id is recorded.
C28_NullIdOverMaterialized ==
    [][\A r \in DOMAIN heap : \A name \in FieldNames(heap[r].cls) :
         (IsFieldAChild(heap[r].cls, name, TRUE) /\ NullsRelatedId(r, name))
         => /\ raised' = "none"
            /\ Get(heap'[r].attrs, name, None)
                 = IF IdOf(heap, Materialized(heap, r, name)) # None
                   THEN Null ELSE Materialized(heap, r, name)
            /\ heap'[r].rel = heap[r].rel]_vars

\* child_id = Null was assigned over a child without an id, which is still
\* there, and nothing is pending.
C28_Witness ==
    /\ op = Op("setattr", 1, "child_id", Null, FALSE)
    /\ Materialized(heap, 1, "child") # None
    /\ IdOf(heap, Materialized(heap, 1, "child")) = None
    /\ heap[1].rel = EmptyDoc

\* The step is `{name}_id = v` on instance r, for an id v that is not the id
\* of a related object the attribute holds
SetsOtherRelatedId(r, name) ==
    /\ op'.name = "setattr" /\ op'.r = r /\ op'.field = IdNameOf(name)
    /\ op'.arg \notin {None, Null}
    /\ Materialized(heap, r, name) # None
         => ~PyEq(IdOf(heap, Materialized(heap, r, name)),
                  Convert("to_model", GetField(heap[Materialized(heap, r, name).r].cls, "id"),
                          op'.arg))

\* The state is the one after `{name}_id = v`, v pending, and the step reads
\* attribute name
ReadsAfterRelatedId(r, name) ==
    /\ op.name = "setattr" /\ op.r = r /\ op.field = IdNameOf(name)
    /\ op.arg \notin {None, Null} /\ raised = "none"
    /\ name \notin DOMAIN heap[r].attrs
    /\ op'.name = "getattr" /\ op'.r = r /\ op'.field = name

\* C29: after set_related_field_id(name, v), also through `{name}_id = v`,
\* with a concrete v that differs from the id of the current child if there
\* is one, the attribute is no longer materialized, get_related_field_id
\* returns v, and the next read of the attribute resolves the object for v
\* and not the old child.
C29_NewIdDropsChild ==
    /\ [][\A r \in DOMAIN heap : \A name \in FieldNames(heap[r].cls) :
             (IsFieldAChild(heap[r].cls, name, TRUE) /\ SetsOtherRelatedId(r, name))
             => /\ raised' = "none"
                /\ name \notin DOMAIN heap'[r].attrs
                /\ GetRelatedFieldId(heap', r, name) = op'.arg]_vars
    /\ [][\A r \in DOMAIN heap : \A name \in FieldNames(heap[r].cls) :
             (IsFieldAChild(heap[r].cls, name, TRUE) /\ ReadsAfterRelatedId(r, name))
             => /\ fetches' = 1
                /\ op'.arg = StrV("nothing") => ret' = None
                /\ op'.arg = StrV("found")
                     => /\ ret'.t = "obj"
                        /\ ret'.r \notin DOMAIN heap
                        /\ IdOf(heap', ret') = op.arg
                        /\ Get(heap'[r].attrs, name, None) = ret']_vars

\* child_id = 2 was assigned while the child with id 1 was set: the
\* attribute is gone and 2 is pending.
C29_Witness ==
    /\ op = Op("setattr", 1, "child_id", IntV(2), FALSE)
    /\ "child" \notin DOMAIN heap[1].attrs
    /\ GetRelatedFieldId(heap, 1, "child") = IntV(2)
    /\ \E x \in DOMAIN heap : heap[x].cls = "RChild" /\ Get(heap[x].attrs, "id", None) = IntV(1)

\* The step imports, into instance r whose attribute name holds no related
\* object, a document that has `{name}_id` null and no key name
ImportsNullRelatedId(r, name) ==
    /\ op'.name = "update_from_json" /\ op'.r = r
    /\ IdNameOf(name) \in DOMAIN op'.arg.d
    /\ Get(op'.arg.d, IdNameOf(name), Null) = None
    /\ name \notin DOMAIN op'.arg.d
    /\ Materialized(heap, r, name) = None

\* C30: after the import of a document in which `{name}_id` is present and
\* null and `{name}` is absent, into an instance that holds no related object
\* for name, reading the attribute returns Null, reading `{name}_id` returns
\* Null, and no fetch is made for the field.
C30_NullIdImported ==
    [][\A r \in DOMAIN heap : \A name \in FieldNames(heap[r].cls) :
         (IsFieldAChild(heap[r].cls, name, TRUE) /\ ImportsNullRelatedId(r, name))
         => /\ raised' = "none"
            /\ \A answer \in {"nothing", "found"} :
                 /\ GetAttr(heap', r, name, answer) = Res(heap', Null, "none", 0)
                 /\ GetAttr(heap', r, IdNameOf(name), answer) = Res(heap', Null, "none", 0)]_vars

\* {"child_id": null} was imported while the id 1 was pending: the
\* attribute is Null.
C30_Witness ==
    /\ op = Op("update_from_json", 1, "", DictV([k \in {"child_id"} |-> None]), FALSE)
    /\ Get(heap[1].attrs, "child", None) = Null
    /\ Get(heap[1].rel, "child", None) = IntV(1)
    /\ GetAttr(heap, 1, "child_id", "found") = Res(heap, Null, "none", 0)

---------------------------------------------------------------------------
\* Callable defaults (SpecDef)

\* The instances whose field_list has been materialized
WithList(h) == {r \in DOMAIN h : h[r].cls = "DModel" /\ "field_list" \in DOMAIN h[r].attrs}

\* No two instances hold the same list object.
OwnLists == \A r1, r2 \in WithList(heap) :
               r1 # r2 => heap[r1].attrs["field_list"] # heap[r2].attrs["field_list"]

\* After a read, the same read returns the same object and changes nothing.
ReadIsStable ==
    (op.name = "getattr" /\ raised = "none")
        => GetAttr(heap, op.r, op.field, "nothing") = Res(heap, ret, "none", 0)

\* An append through one instance leaves the list of every other instance as it was.
AppendIsPrivate ==
    op'.name = "append" =>
        \A r \in (WithList(heap) \cap WithList(heap')) \ {op'.r} :
            ItemsOf(heap', heap'[r].attrs["field_list"]) = ItemsOf(heap, heap[r].attrs["field_list"])

\* C13: with a callable default (list), each instance gets a list of its
\* own: no two instances hold the same object, appending to one is not seen
\* through another, and a repeated read on an instance returns the same object.
C13_OwnDefaultPerInstance ==
    [](OwnLists /\ ReadIsStable) /\ [][AppendIsPrivate]_vars

\* Both instances have read their default list; two items were appended to
\* the first and the second is still empty.
C13_Witness ==
    /\ op.name = "append" /\ op.r = 1
    /\ WithList(heap) = {1, 2}
    /\ ItemsOf(heap, heap[1].attrs["field_list"]) = 2
    /\ ItemsOf(heap, heap[2].attrs["field_list"]) = 0

---------------------------------------------------------------------------
\* Documents that lack a field's json_path (SpecPath)

RECURSIVE PathPresent(_, _)
\* Every segment of path is in document d; a null on the way counts as present
PathPresent(d, path) ==
    /\ path[1] \in DOMAIN d
    /\ \/ Len(path) = 1
       \/ d[path[1]] = None
       \/ d[path[1]].t = "dict" /\ PathPresent(d[path[1]].d, Tail(path))

\* The fields of instance 1 whose json_path is not fully present in d
MissingIn(d) ==
    {f \in FieldNames(heap[1].cls) : ~PathPresent(d, GetField(heap[1].cls, f).json_path)}

\* The next operation is update_from_json on instance 1
Importing == op'.name = "update_from_json" /\ op'.r = 1

\* The attribute f of instance 1 is the same before and after the step
Kept(f) == Get(heap'[1].attrs, f, Default) = Get(heap[1].attrs, f, Default)

---------------------------------------------------------------------------
\* The last-known document (SpecHist)

\* The key-wise merge of a sequence of documents: for each key, the value of
\* the latest document that has it
MergeAll(docs) ==
    [k \in UNION {DOMAIN docs[i] : i \in 1..Len(docs)} |->
        docs[CHOOSE i \in 1..Len(docs) :
                /\ k \in DOMAIN docs[i]
                /\ \A j \in (i + 1)..Len(docs) : k \notin DOMAIN docs[j]][k]]

\* C10: after update_from_json with d1..dn (no forget in between) the
\* last-known document is the key-wise merge of d1..dn, the latest document
\* that has a key giving its value; no key once seen is dropped.
C10_LastIsMergeOfImports ==
    heap[1].last = IF hist.docs = << >> THEN None ELSE DictV(MergeAll(hist.docs))

\* A full document, then a partial one that overrides one key and keeps the other.
C10_Witness ==
    /\ Len(hist.docs) = 2
    /\ DOMAIN hist.docs[1] = {"field_str", "field_int"}
    /\ DOMAIN hist.docs[2] = {"field_str"}
    /\ hist.docs[2]["field_str"] # hist.docs[1]["field_str"]
    /\ heap[1].last.d["field_int"] = hist.docs[1]["field_int"]
    /\ heap[1].last.d["field_str"] = hist.docs[2]["field_str"]

---------------------------------------------------------------------------
\* Relationships to a type with an id field (SpecRel)

\* The last operation read the relationship attribute of instance 1, and
\* that read called get_via_id
ReadFetched ==
    op.name = "getattr" /\ op.r = 1 /\ op.field = "child" /\ raised = "none" /\ fetches = 1

\* The next operation reads the relationship attribute of instance 1 again
ReadsAgain ==
    op'.name = "getattr" /\ op'.r = 1 /\ op'.field = "child"

\* C5 as stated: once a read of the relationship attribute has made its
\* fetch, the result is stored: the next read returns the same result and
\* makes no fetch.
C5_FetchedOnce ==
    [][(ReadFetched /\ ReadsAgain) => (fetches' = 0 /\ ret' = ret)]_vars

\* C5 amended: a fetch that finds the object stores it on the instance, and
\* the next read returns that object, makes no fetch and changes nothing; a
\* fetch that finds nothing stores nothing, and the next read fetches again.
C5_FetchOnceWhenFound ==
    [][(ReadFetched /\ ReadsAgain)
       => IF ret # None
          THEN /\ Get(heap[1].attrs, "child", None) = ret
               /\ fetches' = 0 /\ ret' = ret /\ heap' = heap
          ELSE /\ "child" \notin DOMAIN heap[1].attrs
               /\ fetches' = 1]_vars

\* A read that made no fetch and returned the object an earlier read had
\* fetched for the pending id.
C5_Witness ==
    /\ op.name = "getattr" /\ op.r = 1 /\ op.field = "child"
    /\ fetches = 0
    /\ ret.t = "obj"
    /\ "child" \in DOMAIN heap[1].rel
    /\ IdOf(heap, ret) = heap[1].rel["child"]

\* The related object set on the relationship attribute of instance 1, if any
ChildSet == GetChildWithoutLazyLookup(heap, 1, "child", FALSE)

\* C6 as stated: while an object o is set on the relationship attribute,
\* reading `child_id` returns o.id, whatever o.id is.
C6_IdOfAssigned ==
    ChildSet.t = "obj" =>
        GetAttr(heap, 1, "child_id", "nothing") = Res(heap, IdOf(heap, ChildSet), "none", 0)

\* C6 amended: while an object o is set on the relationship attribute,
\* reading `child_id` returns o.id when o.id is not None, and raises
\* AttributeError when o.id is None; neither changes the instance.
C6_IdOfAssignedWhenKnown ==
    ChildSet.t = "obj" =>
        GetAttr(heap, 1, "child_id", "nothing") =
            IF IdOf(heap, ChildSet) # None
            THEN Res(heap, IdOf(heap, ChildSet), "none", 0)
            ELSE Res(heap, None, "AttributeError", 0)

\* An object with an id is set, no id is pending, and `child_id` was read
\* and gave the id of the object.
C6_Witness ==
    /\ op.name = "getattr" /\ op.r = 1 /\ op.field = "child_id"
    /\ ChildSet.t = "obj"
    /\ "child" \notin DOMAIN heap[1].rel
    /\ ret = IntV(1)
    /\ IdOf(heap, ChildSet) = IntV(1)

\* C8: a relationship field has a pending related id only while the
\* attribute is not set on the instance to a related object or to Null.
C8_PendingOnlyWhileUnset ==
    \A r \in DOMAIN heap : \A name \in DOMAIN heap[r].rel :
        GetChildWithoutLazyLookup(heap, r, name, FALSE) = None

---------------------------------------------------------------------------
\* Embedded related objects (SpecEmb)

\* Instance 1 has a last-known document and an embedded object
EmbeddedImported == heap[1].last # None /\ Embedded.t = "obj"

\* The parent's own field is exported in changes-only mode exactly when it
\* holds a value that is not the last-known one, and in full mode exactly
\* when it holds a value.
OwnFieldExported(changes, full) ==
    /\ "p_field_int" \in KeysOf(changes) <=>
           /\ "p_field_int" \in Holding(1)
           /\ Exported(heap, 1, "p_field_int") # Get(heap[1].last.d, "p_field_int", Default)
    /\ "p_field_int" \in KeysOf(full) <=> "p_field_int" \in Holding(1)

\* The full export has the full export of the embedded object.
FullHasChild(full, child_full) ==
    "embedded" \in KeysOf(full) /\ full.d["embedded"] = child_full

\* C9 as stated: the parent's changes-only export has the key of the
\* embedded object exactly when that object's own changes-only export is
\* non-empty, with that export as its value; the parent's unchanged fields
\* are omitted, and the full export has all parent and child fields.
C9_EmbeddedChangesOnly ==
    EmbeddedImported =>
        LET changes == Json(heap, 1, TRUE).ret
            child == Json(heap, Embedded.r, TRUE).ret
        IN /\ "embedded" \in KeysOf(changes) <=> KeysOf(child) # {}
           /\ "embedded" \in KeysOf(changes) => changes.d["embedded"] = child
           /\ OwnFieldExported(changes, Json(heap, 1, FALSE).ret)
           /\ FullHasChild(Json(heap, 1, FALSE).ret, Json(heap, Embedded.r, FALSE).ret)

\* C9 amended: the parent's changes-only export has the key of the embedded
\* object exactly when that object's own changes-only export is not None and
\* is not the value the parent's last-known document has at the key, with
\* that export as its value; the parent's unchanged fields are omitted, and
\* the full export has all parent and child fields.
C9_EmbeddedChangesOnlyVsLast ==
    EmbeddedImported =>
        LET changes == Json(heap, 1, TRUE).ret
            child == Json(heap, Embedded.r, TRUE).ret
        IN /\ "embedded" \in KeysOf(changes) <=>
                  child \notin {None, Get(heap[1].last.d, "embedded", Default)}
           /\ "embedded" \in KeysOf(changes) => changes.d["embedded"] = child
           /\ OwnFieldExported(changes, Json(heap, 1, FALSE).ret)
           /\ FullHasChild(Json(heap, 1, FALSE).ret, Json(heap, Embedded.r, FALSE).ret)

\* Parent and embedded object were imported together, one field of the
\* embedded object was changed, and the changes-only export of the parent
\* that followed has that field alone.
C9_Witness ==
    /\ op.name = "json" /\ op.r = 1 /\ op.only
    /\ EmbeddedImported
    /\ DOMAIN heap[1].last.d = {"p_field_int", "embedded"}
    /\ heap[Embedded.r].last = heap[1].last.d["embedded"]
    /\ ret = DictV([k \in {"embedded"} |-> DictV([f \in {"field_int"} |-> IntV(2)])])
---------------------------------------------------------------------------
\* Model-instance defaults (SpecCopy)

\* What is seen through instance r: its attributes, a list by its length
Seen(h, r) ==
    [k \in DOMAIN h[r].attrs |->
        IF h[r].attrs[k].t = "obj" /\ h[h[r].attrs[k].r].cls = "list"
        THEN IntV(ItemsOf(h, h[r].attrs[k])) ELSE h[r].attrs[k]]

\* The instances that hold a copy of the default
WithInner(h) == {r \in DOMAIN h : h[r].cls = "OModel" /\ "inner" \in DOMAIN h[r].attrs}

\* No two instances hold the same copy, and none holds the declared default.
OwnCopies ==
    \A r1 \in WithInner(heap) :
        /\ heap[r1].attrs["inner"] # ObjV(1)
        /\ \A r2 \in WithInner(heap) \ {r1} : heap[r1].attrs["inner"] # heap[r2].attrs["inner"]

\* A change made through one copy is seen neither through the declared
\* default nor through another copy.
CopyChangeIsPrivate ==
    (op'.name \in {"append", "setattr"} /\ op'.r \in {c.r : c \in Copies(heap)}) =>
        \A x \in {c.r : c \in Instances(heap, "EModel")} \ {op'.r} :
            Seen(heap', x) = Seen(heap, x)

\* C31: a field default that is a model instance is not shared: each reading
\* instance gets a copy of its own, and a change of that copy, a change of a
\* mutable value held in its fields included, is seen neither through the
\* declared default object nor through the copy of another instance.
C31_InstanceDefaultNotShared ==
    []OwnCopies /\ [][CopyChangeIsPrivate]_vars

---------------------------------------------------------------------------
\* Getter and setter overrides (SpecProp)

\* The fields of cls that have a getter override and no setter override
GetterOnly(cls) ==
    {f \in FieldNames(cls) : GetField(cls, f).fget # "none" /\ GetField(cls, f).fset = "none"}

\* C32: an assignment to a field that has a getter override and no setter
\* override raises the unsupported-write error (XModelError) and leaves the
\* attributes, the pending related ids and the last-known document of the
\* instance as they were.
C32_GetterOnlyWrite ==
    [][(op'.name = "setattr" /\ op'.field \in GetterOnly(heap[op'.r].cls))
          => (raised' = "XModelError" /\ heap'[op'.r] = heap[op'.r])]_vars

---------------------------------------------------------------------------
\* The queries of get_via_id (SpecQueryFair)

\* C33: get_via_id with a finite list of ids or key dicts returns after
\* finitely many queries, and every query it issues carries at most
\* max_query_by_id key values, whatever max_query_by_id >= 1 is and however
\* single-key and composite-key entries are mixed.
C33_QueriesEndAndFit ==
    /\ (query.pc = "loop") ~> (query.pc = "done")
    /\ [](query.last <= query.max)

---------------------------------------------------------------------------
\* The cache by id (SpecCache)

\* The option cache_by_id is set in the current options
CacheByIdOn(g) == OptionForName(g.options, "cache_by_id") = BoolV(TRUE)

\* The instance get_via_id(x) returns without asking the client, 0 if it
\* asks the client
Hit(h, c, g, x) ==
    LET got == GetViaIdSingle(h, c, "RChild", IntV(x), "nothing",
                              OptionForName(g.options, "cache_by_id"))
    IN IF got.fetched = 0 /\ got.ret # None THEN got.ret.r ELSE 0

\* This step is a successful update_from_json of a document with id x
UpdatesWithId(x) ==
    /\ op'.name = "update_from_json" /\ raised' = "none"
    /\ Get(op'.arg.d, "id", None) = IntV(x)

\* After an update from a document with id x, get_via_id(x) would return
\* the updated instance without the client
UpdateCaches(x) ==
    (UpdatesWithId(x) /\ CacheByIdOn(ctx')) => Hit(heap', client', ctx', x) = op'.r

\* get_via_id(x) returns the cached instance and does not ask the client
GetUsesCache(x) ==
    (op'.name = "get_via_id" /\ op'.arg = IntV(x) /\ CacheByIdOn(ctx)
        /\ Hit(heap, client, ctx, x) # 0)
    => (ret' = ObjV(Hit(heap, client, ctx, x)) /\ fetches' = 0)

\* The instance cached for x stays, with the option on, over every step
\* that does not clear the caches and is not one of `others`
CacheStays(x, others) ==
    (Hit(heap, client, ctx, x) # 0 /\ CacheByIdOn(ctx) /\ CacheByIdOn(ctx')
        /\ op'.name # "clear_caches" /\ ~others)
    => Hit(heap', client', ctx', x) = Hit(heap, client, ctx, x)

\* C34 as stated: with cache_by_id on, after an instance was updated from a
\* document with id X, get_via_id(X) returns that instance without asking
\* the client, until the caches are cleared.
C34_CachedUntilCleared ==
    [][\A x \in 0 .. MaxId : UpdateCaches(x) /\ GetUsesCache(x) /\ CacheStays(x, FALSE)]_vars

\* C34: with cache_by_id on, after an instance was updated from a document
\* with an id X other than 0, get_via_id(X) returns without asking the
\* client the instance that was last updated from a document with id X,
\* until the caches are cleared.
C34_LastUpdatedCached ==
    [][\A x \in 1 .. MaxId :
          UpdateCaches(x) /\ GetUsesCache(x) /\ CacheStays(x, UpdatesWithId(x))]_vars

\* get_via_id(1) returned instance 1 from the cache while the cache holds
\* for id 2 the instance the client built for it
C34_Witness ==
    /\ op.name = "get_via_id" /\ op.arg = IntV(1) /\ ret = ObjV(1) /\ fetches = 0
    /\ CacheByIdOn(ctx)
    /\ Len(heap) > 1
    /\ Hit(heap, client, ctx, 2) = 2

---------------------------------------------------------------------------
\* Partial documents and the id of a remote model (SpecRem)

\* The id the instance holds
HeldId(h, r) == Get(h[r].attrs, "id", None)

\* C35: updating a remote model from a document without the key 'id' leaves
\* the model's id unchanged: an id from an earlier document or assignment
\* is still there after a later partial update.
C35_PartialUpdateKeepsId ==
    [][(op'.name = "update_from_json" /\ "id" \notin DOMAIN op'.arg.d)
        => HeldId(heap', op'.r) = HeldId(heap, op'.r)]_vars

---------------------------------------------------------------------------
\* Export leaves the relationships alone (SpecExp)

\* The relationships of a class to classes with an id field
IdRelations(cls) ==
    {f \in FieldNames(cls) :
        GetField(cls, f).related_type # "none" /\ HasIdField(GetField(cls, f).related_type)}

\* The id known for relationship f without a fetch: Null or the id of the
\* object set, else the pending id; in its wire form, None when unknown
KnownId(h, r, f) ==
    IF f \notin DOMAIN h[r].attrs \/ h[r].attrs[f] = None THEN Get(h[r].rel, f, None)
    ELSE IF h[r].attrs[f] = Null THEN Null
    ELSE Get(h[h[r].attrs[f].r].attrs, "id", None)

\* The exported document d holds for f the known id: no key when it is
\* unknown, null for Null
HoldsKnownId(d, h, r, f) ==
    IF IdNameOf(f) \notin DOMAIN d THEN TRUE
    ELSE /\ KnownId(h, r, f) # None
         /\ d[IdNameOf(f)] = (IF KnownId(h, r, f) = Null THEN None ELSE KnownId(h, r, f))

\* C36: an export, with either value of only_include_changes, never fetches
\* a related object (none is fetched, built or bound to the instance) and
\* leaves the last-known document and the pending related ids unchanged;
\* for a relationship to a class with an id it exports the id already known.
C36_ExportDoesNotFetch ==
    [][op'.name = "json"
        => /\ fetches' = 0 /\ Len(heap') = Len(heap)
           /\ heap'[op'.r].last = heap[op'.r].last
           /\ heap'[op'.r].rel = heap[op'.r].rel
           /\ \A f \in IdRelations(heap[op'.r].cls) :
                 /\ (f \in DOMAIN heap'[op'.r].attrs) = (f \in DOMAIN heap[op'.r].attrs)
                 /\ (raised' = "none" /\ ret' # None)
                      => HoldsKnownId(ret'.d, heap, op'.r, f)]_vars

\* An export of an instance with a pending related id and no related
\* object: the id is exported and is still pending
C36_Witness ==
    /\ op.name = "json" /\ op.r = 1 /\ raised = "none" /\ ret # None
    /\ "child" \notin DOMAIN heap[1].attrs
    /\ Get(heap[1].rel, "child", None) = IntV(1)
    /\ Get(ret.d, "child_id", None) = IntV(1)

---------------------------------------------------------------------------
\* Importing a document twice (SpecRelId)

\* What a caller sees of an attribute value: of an object its class, field
\* values, last-known document and pending ids
ShownValue(h, v) ==
    IF v.t = "obj" THEN << h[v.r].cls, h[v.r].attrs, h[v.r].last, h[v.r].rel >> ELSE v

\* The field values, last-known document and pending related ids of r
Shown(h, r) ==
    [attrs |-> [k \in DOMAIN h[r].attrs |-> ShownValue(h, h[r].attrs[k])],
     last |-> h[r].last, rel |-> h[r].rel]

\* update_from_json(d) once more, after the step that was update_from_json(d)
ImportedAgain == UpdateFromJson(heap', op'.r, op'.arg.d)

\* C37: import is idempotent: update_from_json(d) twice in a row leaves the
\* instance with the same field values, last-known document and pending
\* related ids as calling it once.
C37_ImportIdempotent ==
    [][(op'.name = "update_from_json" /\ raised' = "none")
        => /\ ImportedAgain.raised = "none"
           /\ Shown(ImportedAgain.h, op'.r) = Shown(heap', op'.r)]_vars

\* A document with a related id was imported after a related object was
\* constructed: the id is pending and no related object is set
C37_Witness ==
    /\ op.name = "update_from_json" /\ raised = "none"
    /\ "child_id" \in DOMAIN op.arg.d
    /\ "child" \in DOMAIN heap[1].rel
    /\ "child" \notin DOMAIN heap[1].attrs
    /\ Len(heap) > 1

---------------------------------------------------------------------------
\* No lost update (Spec)

\* The wire form of the value field f of r holds: its converter's to_json,
\* JSON null for Null
WireOf(h, r, f) ==
    LET field == GetField(h[r].cls, f)
        v == IF field.converter # "none" THEN Convert("to_json", field, h[r].attrs[f])
             ELSE h[r].attrs[f]
    IN IF v = Null THEN None ELSE v

\* The last-known value old as the type of the wire value new: str(old) of
\* an int, int(old) of a numeral
AsTypeOf(old, new) ==
    IF old.t = "int" /\ new.t = "str" THEN StrV(StrOfInt(old.n))
    ELSE IF old.t = "str" /\ new.t = "int" /\ old.s \in NumStrs THEN IntV(IntOfStr(old.s))
    ELSE old

\* This step assigned a value other than None to the plain, writable field
\* f of an instance whose last-known document holds f's key
AssignedAfterImport(f) ==
    /\ op'.name = "setattr" /\ op'.field = f /\ raised' = "none" /\ op'.arg # None
    /\ FieldExists(heap[op'.r].cls, f)
    /\ GetField(heap[op'.r].cls, f).related_type = "none"
    /\ ~GetField(heap[op'.r].cls, f).read_only
    /\ f \in DOMAIN heap'[op'.r].attrs
    /\ heap'[op'.r].last # None
    /\ f \in DOMAIN heap'[op'.r].last.d

\* json(only_include_changes=True) after this step is a document that
\* holds for f the wire form of the field's value
ExportHolds(f) ==
    LET out == ApiJson(heap', op'.r, TRUE)
    IN /\ out.raised = "none" /\ out.ret # None
       /\ f \in DOMAIN out.ret.d
       /\ out.ret.d[f] = WireOf(heap', op'.r, f)

\* C38 as stated: after an import of d, a plain writable field assigned a
\* value other than None whose wire form differs from d's value for the
\* field's key is in json(only_include_changes=True) with the new wire value.
C38_NoLostUpdate ==
    [][\A f \in AttrNames("AModel") :
          (AssignedAfterImport(f)
              /\ WireOf(heap', op'.r, f) # heap'[op'.r].last.d[f])
          => ExportHolds(f)]_vars

\* C38: the same, for a wire form that differs from d's value also after
\* d's value is converted to the type of the new wire value (str of an int,
\* int of a numeral).
C38_NoLostUpdateAsType ==
    [][\A f \in AttrNames("AModel") :
          (AssignedAfterImport(f)
              /\ WireOf(heap', op'.r, f)
                   # AsTypeOf(heap'[op'.r].last.d[f], WireOf(heap', op'.r, f)))
          => ExportHolds(f)]_vars

\* b_field was imported as "1" and assigned 2, and the changes-only export
\* holds 2 for it
C38_Witness ==
    /\ op.name = "json" /\ op.only /\ raised = "none" /\ ret # None
    /\ heap[1].last # None
    /\ Get(heap[1].last.d, "b_field", None) = StrV("1")
    /\ Get(heap[1].attrs, "b_field", None) = IntV(2)
    /\ Get(ret.d, "b_field", None) = IntV(2)

====
